---- MODULE Spec2Model ----
(***************************************************************************)
(* ZeroGravityJudge: P2P escrow + arbitration with M-of-N signed receipts. *)
(* State machine of smart-contracts/src/ZeroGravityJudge.sol together with *)
(* the ERC20 token it escrows.  Every external function is one action; a   *)
(* reverting call leaves storage and balances as they were and is recorded *)
(* in `last` with the error it reverted with.                              *)
(***************************************************************************)
EXTENDS Integers, Sequences, FiniteSets, TLC

VARIABLES nextWagerId, wagers, balanceOf, ledger, last

vars == <<nextWagerId, wagers, balanceOf, ledger, last>>

-----------------------------------------------------------------------------
(* Bounds of the exploration *)

\* successful createWager calls explored
MaxWagers == 1

\* successful createWager calls explored where several wagers coexist
MaxWagersMany == 2

\* tokens minted to each party before the first call
InitBalance == 2

\* width of the uint8 fields m and n of ArbitrationProfile
Uint8Range == 256

\* upper limit of confidenceThresholdBps accepted by createWager
BpsMax == 10000

-----------------------------------------------------------------------------
(* Identities *)

NULL == "0x0"
JUDGE == "judge"
TOKEN == "token"
\* the address ECDSA.recover yields for a signature made over other data
STRANGER == "0x?"

Parties == {"alice", "bob"}
Panel == {"xavier", "yara"}
Address == Parties \cup Panel

\* ids a call may name: 0 is never allocated, ids above nextWagerId not yet
WagerIds == 0 .. MaxWagers

Sides == {"A", "B"}

\* the arbitrator lists handed to createWager
ArbitratorLists == { <<>>, <<"xavier">>, <<"xavier", "yara">> }

\* a list of 256 entries, one more than the uint8 field n holds
LongList == [i \in 1 .. Uint8Range |-> "xavier"]

ConfidenceValues == {7000, 8000, 20000}

Receipts ==
    [wagerId : WagerIds, winner : Parties \cup {"xavier"}, confidenceBps : ConfidenceValues]

\* the key holders who sign receipts; a signature is a key holder together with
\* the receipt the holder signed
Signers == Panel

\* the signatures submitted with receipt r: made over r by each key holder, or
\* made by a panel member over the same receipt for another wager
SignaturesFor(r) ==
    {[by |-> s, over |-> r] : s \in Signers}
        \cup {[by |-> "xavier", over |-> [r EXCEPT !.wagerId = (r.wagerId + 1) % (MaxWagers + 1)]]}

-----------------------------------------------------------------------------
(* Storage *)

ZeroProfile ==
    [confidenceThresholdBps |-> 0, m |-> 0, n |-> 0, arbitrators |-> <<>>,
     isArbitrator |-> {}]

ZeroWager ==
    [partyA |-> NULL, partyB |-> NULL, token |-> NULL,
     stakeARequired |-> 0, stakeBRequired |-> 0, stakeA |-> 0, stakeB |-> 0,
     claim |-> "", sources |-> "", evidenceRoot |-> "", evidenceURI |-> "",
     fundedA |-> FALSE, fundedB |-> FALSE, resolved |-> FALSE,
     winner |-> NULL, winningConfidenceBps |-> 0,
     profile |-> ZeroProfile,
     arbitratorHasVoted |-> {}, votesForA |-> 0, votesForB |-> 0]

\* outcome of the latest call: the function, the wager id it named, the error it
\* reverted with ("" when it returned) and the events it emitted, in order
Call(op, id, err, events) == [op |-> op, id |-> id, err |-> err, events |-> events]

\* per wager: tokens pulled in, tokens sent out, number of outgoing transfers
ZeroLedger == [deposited |-> 0, paid |-> 0, transfersOut |-> 0, paidTo |-> NULL]

Init ==
    /\ nextWagerId = 0
    /\ wagers = [id \in WagerIds |-> ZeroWager]
    /\ balanceOf = [a \in Address \cup {JUDGE} |-> IF a \in Parties THEN InitBalance ELSE 0]
    /\ ledger = [id \in WagerIds |-> ZeroLedger]
    /\ last = Call("constructor", 0, "", <<>>)

-----------------------------------------------------------------------------
(* createWager *)

\* createWagerError without the upper bound on m
createWagerError_noQuorumBound(partyB, token, stakeARequired, stakeBRequired, confidenceThresholdBps, m, arbitrators) ==
    IF partyB = NULL \/ token = NULL THEN "InvalidParams"
    ELSE IF stakeARequired = 0 \/ stakeBRequired = 0 THEN "InvalidParams"
    ELSE IF confidenceThresholdBps = 0 \/ confidenceThresholdBps > BpsMax THEN "InvalidParams"
    ELSE IF Len(arbitrators) = 0 THEN "InvalidParams"
    ELSE IF m = 0 THEN "InvalidParams"
    ELSE ""

createWagerError(partyB, token, stakeARequired, stakeBRequired, confidenceThresholdBps, m, arbitrators) ==
    IF partyB = NULL \/ token = NULL THEN "InvalidParams"
    ELSE IF stakeARequired = 0 \/ stakeBRequired = 0 THEN "InvalidParams"
    ELSE IF confidenceThresholdBps = 0 \/ confidenceThresholdBps > BpsMax THEN "InvalidParams"
    ELSE IF Len(arbitrators) = 0 THEN "InvalidParams"
    ELSE IF m = 0 \/ m > Len(arbitrators) THEN "InvalidParams"
    ELSE ""

\* newWager that stores the two parties the wrong way round
newWager_swappedParties(sender, partyB, token, stakeARequired, stakeBRequired, claim, sources, confidenceThresholdBps, m, arbitrators) ==
    [ZeroWager EXCEPT
        !.partyA = partyB,
        !.partyB = sender,
        !.token = token,
        !.stakeARequired = stakeARequired,
        !.stakeBRequired = stakeBRequired,
        !.claim = claim,
        !.sources = sources,
        !.profile = [confidenceThresholdBps |-> confidenceThresholdBps,
                     m |-> m,
                     n |-> Len(arbitrators) % Uint8Range,
                     arbitrators |-> arbitrators,
                     isArbitrator |-> {arbitrators[i] : i \in 1 .. Len(arbitrators)}]]

\* newWager whose membership loop stops one entry short of the list
newWager_skipsLastArbitrator(sender, partyB, token, stakeARequired, stakeBRequired, claim, sources, confidenceThresholdBps, m, arbitrators) ==
    [ZeroWager EXCEPT
        !.partyA = sender,
        !.partyB = partyB,
        !.token = token,
        !.stakeARequired = stakeARequired,
        !.stakeBRequired = stakeBRequired,
        !.claim = claim,
        !.sources = sources,
        !.profile = [confidenceThresholdBps |-> confidenceThresholdBps,
                     m |-> m,
                     n |-> Len(arbitrators) % Uint8Range,
                     arbitrators |-> arbitrators,
                     isArbitrator |-> {arbitrators[i] : i \in 1 .. Len(arbitrators) - 1}]]

newWager(sender, partyB, token, stakeARequired, stakeBRequired, claim, sources, confidenceThresholdBps, m, arbitrators) ==
    [ZeroWager EXCEPT
        !.partyA = sender,
        !.partyB = partyB,
        !.token = token,
        !.stakeARequired = stakeARequired,
        !.stakeBRequired = stakeBRequired,
        !.claim = claim,
        !.sources = sources,
        !.profile = [confidenceThresholdBps |-> confidenceThresholdBps,
                     m |-> m,
                     n |-> Len(arbitrators) % Uint8Range,
                     arbitrators |-> arbitrators,
                     isArbitrator |-> {arbitrators[i] : i \in 1 .. Len(arbitrators)}]]

\* createWager that allocates with nextWagerId++ in place of ++nextWagerId
CreateWager_postIncrement(sender, partyB, token, stakeARequired, stakeBRequired, claim, sources, confidenceThresholdBps, m, arbitrators) ==
    LET err == createWagerError(partyB, token, stakeARequired, stakeBRequired,
                                confidenceThresholdBps, m, arbitrators)
        id == nextWagerId
    IN IF err = ""
       THEN /\ nextWagerId' = nextWagerId + 1
            /\ wagers' = [wagers EXCEPT ![id] =
                             newWager(sender, partyB, token, stakeARequired, stakeBRequired,
                                      claim, sources, confidenceThresholdBps, m, arbitrators)]
            /\ last' = Call("createWager", id, "",
                            << <<"WagerCreated", id, sender, partyB, token, stakeARequired,
                                 stakeBRequired, confidenceThresholdBps, m,
                                 Len(arbitrators) % Uint8Range>> >>)
            /\ UNCHANGED <<balanceOf, ledger>>
       ELSE /\ last' = Call("createWager", 0, err, <<>>)
            /\ UNCHANGED <<nextWagerId, wagers, balanceOf, ledger>>

CreateWager(sender, partyB, token, stakeARequired, stakeBRequired, claim, sources, confidenceThresholdBps, m, arbitrators) ==
    LET err == createWagerError(partyB, token, stakeARequired, stakeBRequired,
                                confidenceThresholdBps, m, arbitrators)
        id == nextWagerId + 1
    IN IF err = ""
       THEN /\ nextWagerId' = id
            /\ wagers' = [wagers EXCEPT ![id] =
                             newWager(sender, partyB, token, stakeARequired, stakeBRequired,
                                      claim, sources, confidenceThresholdBps, m, arbitrators)]
            /\ last' = Call("createWager", id, "",
                            << <<"WagerCreated", id, sender, partyB, token, stakeARequired,
                                 stakeBRequired, confidenceThresholdBps, m,
                                 Len(arbitrators) % Uint8Range>> >>)
            /\ UNCHANGED <<balanceOf, ledger>>
       ELSE /\ last' = Call("createWager", 0, err, <<>>)
            /\ UNCHANGED <<nextWagerId, wagers, balanceOf, ledger>>

-----------------------------------------------------------------------------
(* ERC20 token *)

\* safeTransfer / safeTransferFrom return when the token accepts the call and the
\* sender holds the amount; otherwise they revert
\* canTransfer of a transfer whose failure goes unnoticed
canTransfer_unchecked(from, amount, tokenAccepts) == TRUE

canTransfer(from, amount, tokenAccepts) == tokenAccepts /\ balanceOf[from] >= amount

\* balances after `amount` moved from `from` to `to`
transfer(from, to, amount) ==
    [a \in DOMAIN balanceOf |->
        IF from = to THEN balanceOf[a]
        ELSE IF a = from THEN balanceOf[a] - amount
        ELSE IF a = to THEN balanceOf[a] + amount
        ELSE balanceOf[a]]

-----------------------------------------------------------------------------
(* fundEscrow *)

\* fundEscrowError without the AlreadyFunded checks
fundEscrowError_noAlreadyFunded(w, sender, side, tokenAccepts) ==
    IF w.partyA = NULL THEN "InvalidParams"
    ELSE IF w.resolved THEN "AlreadyResolved"
    ELSE IF side = "A"
    THEN IF sender # w.partyA THEN "NotParty"
         ELSE IF ~canTransfer(sender, w.stakeARequired, tokenAccepts) THEN "TransferFailed"
         ELSE ""
    ELSE IF sender # w.partyB THEN "NotParty"
         ELSE IF ~canTransfer(sender, w.stakeBRequired, tokenAccepts) THEN "TransferFailed"
         ELSE ""

\* fundEscrowError without the AlreadyResolved check
fundEscrowError_noResolvedCheck(w, sender, side, tokenAccepts) ==
    IF w.partyA = NULL THEN "InvalidParams"
    ELSE IF side = "A"
    THEN IF sender # w.partyA THEN "NotParty"
         ELSE IF w.fundedA THEN "AlreadyFunded"
         ELSE IF ~canTransfer(sender, w.stakeARequired, tokenAccepts) THEN "TransferFailed"
         ELSE ""
    ELSE IF sender # w.partyB THEN "NotParty"
         ELSE IF w.fundedB THEN "AlreadyFunded"
         ELSE IF ~canTransfer(sender, w.stakeBRequired, tokenAccepts) THEN "TransferFailed"
         ELSE ""

\* fundEscrowError without the existence check
fundEscrowError_noExistenceCheck(w, sender, side, tokenAccepts) ==
    IF w.resolved THEN "AlreadyResolved"
    ELSE IF side = "A"
    THEN IF sender # w.partyA THEN "NotParty"
         ELSE IF w.fundedA THEN "AlreadyFunded"
         ELSE IF ~canTransfer(sender, w.stakeARequired, tokenAccepts) THEN "TransferFailed"
         ELSE ""
    ELSE IF sender # w.partyB THEN "NotParty"
         ELSE IF w.fundedB THEN "AlreadyFunded"
         ELSE IF ~canTransfer(sender, w.stakeBRequired, tokenAccepts) THEN "TransferFailed"
         ELSE ""

\* fundEscrowError that admits side B only after side A is funded
fundEscrowError_requiresAFirst(w, sender, side, tokenAccepts) ==
    IF w.partyA = NULL THEN "InvalidParams"
    ELSE IF w.resolved THEN "AlreadyResolved"
    ELSE IF side = "A"
    THEN IF sender # w.partyA THEN "NotParty"
         ELSE IF w.fundedA THEN "AlreadyFunded"
         ELSE IF ~canTransfer(sender, w.stakeARequired, tokenAccepts) THEN "TransferFailed"
         ELSE ""
    ELSE IF sender # w.partyB THEN "NotParty"
         ELSE IF ~w.fundedA THEN "NotFunded"
         ELSE IF w.fundedB THEN "AlreadyFunded"
         ELSE IF ~canTransfer(sender, w.stakeBRequired, tokenAccepts) THEN "TransferFailed"
         ELSE ""

fundEscrowError(w, sender, side, tokenAccepts) ==
    IF w.partyA = NULL THEN "InvalidParams"
    ELSE IF w.resolved THEN "AlreadyResolved"
    ELSE IF side = "A"
    THEN IF sender # w.partyA THEN "NotParty"
         ELSE IF w.fundedA THEN "AlreadyFunded"
         ELSE IF ~canTransfer(sender, w.stakeARequired, tokenAccepts) THEN "TransferFailed"
         ELSE ""
    ELSE IF sender # w.partyB THEN "NotParty"
         ELSE IF w.fundedB THEN "AlreadyFunded"
         ELSE IF ~canTransfer(sender, w.stakeBRequired, tokenAccepts) THEN "TransferFailed"
         ELSE ""

\* funded that uses up the side's required stake
funded_consumesRequired(w, side) ==
    IF side = "A"
    THEN [w EXCEPT !.fundedA = TRUE, !.stakeA = w.stakeA + w.stakeARequired, !.stakeARequired = 0]
    ELSE [w EXCEPT !.fundedB = TRUE, !.stakeB = w.stakeB + w.stakeBRequired, !.stakeBRequired = 0]

\* storage after a side is funded (lines 163-164, 170-171)
funded(w, side) ==
    IF side = "A"
    THEN [w EXCEPT !.fundedA = TRUE, !.stakeA = w.stakeA + w.stakeARequired]
    ELSE [w EXCEPT !.fundedB = TRUE, !.stakeB = w.stakeB + w.stakeBRequired]

FundEscrow(sender, id, side, tokenAccepts) ==
    LET w == wagers[id]
        err == fundEscrowError(w, sender, side, tokenAccepts)
        amount == IF side = "A" THEN w.stakeARequired ELSE w.stakeBRequired
    IN IF err = ""
       THEN /\ balanceOf' = transfer(sender, JUDGE, amount)
            /\ wagers' = [wagers EXCEPT ![id] = funded(w, side)]
            /\ ledger' = [ledger EXCEPT ![id].deposited = @ + amount]
            /\ last' = Call("fundEscrow", id, "", << <<"EscrowFunded", id, sender, amount>> >>)
            /\ UNCHANGED nextWagerId
       ELSE /\ last' = Call("fundEscrow", id, err, <<>>)
            /\ UNCHANGED <<nextWagerId, wagers, balanceOf, ledger>>

-----------------------------------------------------------------------------
(* attachEvidence *)

\* attachEvidenceError that closes a wager to evidence once it is resolved
attachEvidenceError_unresolvedOnly(w, sender) ==
    IF sender # w.partyA /\ sender # w.partyB THEN "NotParty"
    ELSE IF w.resolved THEN "AlreadyResolved"
    ELSE ""

attachEvidenceError(w, sender) ==
    IF sender # w.partyA /\ sender # w.partyB THEN "NotParty" ELSE ""

AttachEvidence(sender, id, root, uri) ==
    LET w == wagers[id]
        err == attachEvidenceError(w, sender)
    IN IF err = ""
       THEN /\ wagers' = [wagers EXCEPT ![id].evidenceRoot = root, ![id].evidenceURI = uri]
            /\ last' = Call("attachEvidence", id, "", << <<"EvidenceAttached", id, root, uri>> >>)
            /\ UNCHANGED <<nextWagerId, balanceOf, ledger>>
       ELSE /\ last' = Call("attachEvidence", id, err, <<>>)
            /\ UNCHANGED <<nextWagerId, wagers, balanceOf, ledger>>

-----------------------------------------------------------------------------
(* submitReceipt and _finalize *)

\* the EIP-712 digest binds every field of the receipt
\* _hashReceiptTyped that leaves the wager id out of the digest
_hashReceiptTyped_noWagerId(r) == <<"ArbitrationReceipt", r.winner, r.confidenceBps>>

_hashReceiptTyped(r) == <<"ArbitrationReceipt", r.wagerId, r.winner, r.confidenceBps>>

\* ECDSA.recover: the key holder when the signature was made over this digest,
\* an unrelated address otherwise
recover(digest, signature) ==
    IF _hashReceiptTyped(signature.over) = digest THEN signature.by ELSE STRANGER

\* voted that counts one vote for every list slot naming the signer
voted_perSlot(w, r, signer) ==
    LET slots == Cardinality({i \in 1 .. Len(w.profile.arbitrators) :
                                 w.profile.arbitrators[i] = signer})
    IN IF r.winner = w.partyA
       THEN [w EXCEPT !.arbitratorHasVoted = @ \cup {signer}, !.votesForA = @ + slots]
       ELSE [w EXCEPT !.arbitratorHasVoted = @ \cup {signer}, !.votesForB = @ + slots]

\* voted that counts the vote for the side the receipt does not name
voted_otherSide(w, r, signer) ==
    IF r.winner = w.partyA
    THEN [w EXCEPT !.arbitratorHasVoted = @ \cup {signer}, !.votesForB = @ + 1]
    ELSE [w EXCEPT !.arbitratorHasVoted = @ \cup {signer}, !.votesForA = @ + 1]

\* storage after the vote is recorded (lines 201-207)
voted(w, r, signer) ==
    IF r.winner = w.partyA
    THEN [w EXCEPT !.arbitratorHasVoted = @ \cup {signer}, !.votesForA = @ + 1]
    ELSE [w EXCEPT !.arbitratorHasVoted = @ \cup {signer}, !.votesForB = @ + 1]

\* finalizeFor with the threshold test off by one
finalizeFor_strict(w) ==
    IF w.votesForA > w.profile.m THEN w.partyA
    ELSE IF w.votesForB > w.profile.m THEN w.partyB
    ELSE NULL

\* finalizeFor with the two parties exchanged
finalizeFor_swapped(w) ==
    IF w.votesForA >= w.profile.m THEN w.partyB
    ELSE IF w.votesForB >= w.profile.m THEN w.partyA
    ELSE NULL

\* the party _finalize is called for once the vote is recorded (lines 210-214),
\* NULL when it is not called
finalizeFor(w) ==
    IF w.votesForA >= w.profile.m THEN w.partyA
    ELSE IF w.votesForB >= w.profile.m THEN w.partyB
    ELSE NULL

\* potOf that forgets side B
potOf_sideA(w) == w.stakeA

\* the amount _finalize pays out (line 245)
potOf(w) == w.stakeA + w.stakeB

\* _finalize that does not set the resolved flag
_finalize_noFlag(w, winner, confidenceBps) ==
    [w EXCEPT !.winner = winner,
              !.winningConfidenceBps = confidenceBps,
              !.stakeA = 0,
              !.stakeB = 0]

\* _finalize that leaves the escrow balances in place
_finalize_keepStakes(w, winner, confidenceBps) ==
    [w EXCEPT !.resolved = TRUE,
              !.winner = winner,
              !.winningConfidenceBps = confidenceBps]

\* _finalize that records the wager's threshold as the winning confidence
_finalize_thresholdConfidence(w, winner, confidenceBps) ==
    [w EXCEPT !.resolved = TRUE,
              !.winner = winner,
              !.winningConfidenceBps = w.profile.confidenceThresholdBps,
              !.stakeA = 0,
              !.stakeB = 0]

\* storage written by _finalize (lines 239-247)
_finalize(w, winner, confidenceBps) ==
    [w EXCEPT !.resolved = TRUE,
              !.winner = winner,
              !.winningConfidenceBps = confidenceBps,
              !.stakeA = 0,
              !.stakeB = 0]

\* the error _finalize reverts with, "" when it returns (lines 238, 249)
_finalizeError(w, tokenAccepts) ==
    IF w.resolved THEN "AlreadyResolved"
    ELSE IF ~canTransfer(JUDGE, potOf(w), tokenAccepts) THEN "TransferFailed"
    ELSE ""

\* submitReceiptError with the confidence check ahead of the duplicate check
submitReceiptError_confidenceFirst(w, r, signer, tokenAccepts) ==
    IF w.partyA = NULL THEN "InvalidParams"
    ELSE IF ~w.fundedA \/ ~w.fundedB THEN "NotFunded"
    ELSE IF w.resolved THEN "AlreadyResolved"
    ELSE IF signer \notin w.profile.isArbitrator THEN "NotArbitrator"
    ELSE IF r.confidenceBps < w.profile.confidenceThresholdBps THEN "ConfidenceTooLow"
    ELSE IF signer \in w.arbitratorHasVoted THEN "DuplicateReceipt"
    ELSE IF r.winner # w.partyA /\ r.winner # w.partyB THEN "UnknownWinner"
    ELSE IF finalizeFor(voted(w, r, signer)) # NULL
         THEN _finalizeError(voted(w, r, signer), tokenAccepts)
    ELSE ""

\* submitReceiptError that also rejects a confidence equal to the threshold
submitReceiptError_strictConfidence(w, r, signer, tokenAccepts) ==
    IF w.partyA = NULL THEN "InvalidParams"
    ELSE IF ~w.fundedA \/ ~w.fundedB THEN "NotFunded"
    ELSE IF w.resolved THEN "AlreadyResolved"
    ELSE IF signer \notin w.profile.isArbitrator THEN "NotArbitrator"
    ELSE IF signer \in w.arbitratorHasVoted THEN "DuplicateReceipt"
    ELSE IF r.confidenceBps <= w.profile.confidenceThresholdBps THEN "ConfidenceTooLow"
    ELSE IF r.winner # w.partyA /\ r.winner # w.partyB THEN "UnknownWinner"
    ELSE IF finalizeFor(voted(w, r, signer)) # NULL
         THEN _finalizeError(voted(w, r, signer), tokenAccepts)
    ELSE ""

\* submitReceiptError without the panel membership check
submitReceiptError_noArbitratorCheck(w, r, signer, tokenAccepts) ==
    IF w.partyA = NULL THEN "InvalidParams"
    ELSE IF ~w.fundedA \/ ~w.fundedB THEN "NotFunded"
    ELSE IF w.resolved THEN "AlreadyResolved"
    ELSE IF signer \in w.arbitratorHasVoted THEN "DuplicateReceipt"
    ELSE IF r.confidenceBps < w.profile.confidenceThresholdBps THEN "ConfidenceTooLow"
    ELSE IF r.winner # w.partyA /\ r.winner # w.partyB THEN "UnknownWinner"
    ELSE IF finalizeFor(voted(w, r, signer)) # NULL
         THEN _finalizeError(voted(w, r, signer), tokenAccepts)
    ELSE ""

\* submitReceiptError that lets votes be recorded on a resolved wager
submitReceiptError_lateVotesRecorded(w, r, signer, tokenAccepts) ==
    IF w.partyA = NULL THEN "InvalidParams"
    ELSE IF ~w.fundedA \/ ~w.fundedB THEN "NotFunded"
    ELSE IF signer \notin w.profile.isArbitrator THEN "NotArbitrator"
    ELSE IF signer \in w.arbitratorHasVoted THEN "DuplicateReceipt"
    ELSE IF r.confidenceBps < w.profile.confidenceThresholdBps THEN "ConfidenceTooLow"
    ELSE IF r.winner # w.partyA /\ r.winner # w.partyB THEN "UnknownWinner"
    ELSE IF ~w.resolved /\ finalizeFor(voted(w, r, signer)) # NULL
         THEN _finalizeError(voted(w, r, signer), tokenAccepts)
    ELSE ""

\* submitReceiptError without the funding check
submitReceiptError_noFundedCheck(w, r, signer, tokenAccepts) ==
    IF w.partyA = NULL THEN "InvalidParams"
    ELSE IF w.resolved THEN "AlreadyResolved"
    ELSE IF signer \notin w.profile.isArbitrator THEN "NotArbitrator"
    ELSE IF signer \in w.arbitratorHasVoted THEN "DuplicateReceipt"
    ELSE IF r.confidenceBps < w.profile.confidenceThresholdBps THEN "ConfidenceTooLow"
    ELSE IF r.winner # w.partyA /\ r.winner # w.partyB THEN "UnknownWinner"
    ELSE IF finalizeFor(voted(w, r, signer)) # NULL
         THEN _finalizeError(voted(w, r, signer), tokenAccepts)
    ELSE ""

submitReceiptError(w, r, signer, tokenAccepts) ==
    IF w.partyA = NULL THEN "InvalidParams"
    ELSE IF ~w.fundedA \/ ~w.fundedB THEN "NotFunded"
    ELSE IF w.resolved THEN "AlreadyResolved"
    ELSE IF signer \notin w.profile.isArbitrator THEN "NotArbitrator"
    ELSE IF signer \in w.arbitratorHasVoted THEN "DuplicateReceipt"
    ELSE IF r.confidenceBps < w.profile.confidenceThresholdBps THEN "ConfidenceTooLow"
    ELSE IF r.winner # w.partyA /\ r.winner # w.partyB THEN "UnknownWinner"
    ELSE IF finalizeFor(voted(w, r, signer)) # NULL
         THEN _finalizeError(voted(w, r, signer), tokenAccepts)
    ELSE ""

\* submitReceipt that announces the payout ahead of the resolution
SubmitReceipt_payoutFirst(sender, r, signature, tokenAccepts) ==
    LET id == r.wagerId
        w == wagers[id]
        signer == recover(_hashReceiptTyped(r), signature)
        err == submitReceiptError(w, r, signer, tokenAccepts)
        v == voted(w, r, signer)
        to == finalizeFor(v)
        pot == potOf(v)
        accepted == <<"ReceiptAccepted", id, signer, r.winner, r.confidenceBps>>
    IN IF err # ""
       THEN /\ last' = Call("submitReceipt", id, err, <<>>)
            /\ UNCHANGED <<nextWagerId, wagers, balanceOf, ledger>>
       ELSE IF to = NULL
       THEN /\ wagers' = [wagers EXCEPT ![id] = v]
            /\ last' = Call("submitReceipt", id, "", <<accepted>>)
            /\ UNCHANGED <<nextWagerId, balanceOf, ledger>>
       ELSE /\ wagers' = [wagers EXCEPT ![id] = _finalize(v, to, r.confidenceBps)]
            /\ balanceOf' = transfer(JUDGE, to, pot)
            /\ ledger' = [ledger EXCEPT ![id].paid = @ + pot,
                                        ![id].transfersOut = @ + 1,
                                        ![id].paidTo = to]
            /\ last' = Call("submitReceipt", id, "",
                            <<accepted, <<"Payout", id, to, pot>>,
                              <<"Resolved", id, to, r.confidenceBps>> >>)
            /\ UNCHANGED nextWagerId

\* submitReceipt that takes a receipt only from the arbitrator who signed it
SubmitReceipt_onlySigner(sender, r, signature, tokenAccepts) ==
    LET id == r.wagerId
        w == wagers[id]
        signer == recover(_hashReceiptTyped(r), signature)
        err == IF submitReceiptError(w, r, signer, tokenAccepts) = "" /\ sender # signer
               THEN "NotArbitrator"
               ELSE submitReceiptError(w, r, signer, tokenAccepts)
        v == voted(w, r, signer)
        to == finalizeFor(v)
        pot == potOf(v)
        accepted == <<"ReceiptAccepted", id, signer, r.winner, r.confidenceBps>>
    IN IF err # ""
       THEN /\ last' = Call("submitReceipt", id, err, <<>>)
            /\ UNCHANGED <<nextWagerId, wagers, balanceOf, ledger>>
       ELSE IF to = NULL
       THEN /\ wagers' = [wagers EXCEPT ![id] = v]
            /\ last' = Call("submitReceipt", id, "", <<accepted>>)
            /\ UNCHANGED <<nextWagerId, balanceOf, ledger>>
       ELSE /\ wagers' = [wagers EXCEPT ![id] = _finalize(v, to, r.confidenceBps)]
            /\ balanceOf' = transfer(JUDGE, to, pot)
            /\ ledger' = [ledger EXCEPT ![id].paid = @ + pot,
                                        ![id].transfersOut = @ + 1,
                                        ![id].paidTo = to]
            /\ last' = Call("submitReceipt", id, "",
                            <<accepted, <<"Resolved", id, to, r.confidenceBps>>,
                              <<"Payout", id, to, pot>> >>)
            /\ UNCHANGED nextWagerId

SubmitReceipt(sender, r, signature, tokenAccepts) ==
    LET id == r.wagerId
        w == wagers[id]
        signer == recover(_hashReceiptTyped(r), signature)
        err == submitReceiptError(w, r, signer, tokenAccepts)
        v == voted(w, r, signer)
        to == finalizeFor(v)
        pot == potOf(v)
        accepted == <<"ReceiptAccepted", id, signer, r.winner, r.confidenceBps>>
    IN IF err # ""
       THEN /\ last' = Call("submitReceipt", id, err, <<>>)
            /\ UNCHANGED <<nextWagerId, wagers, balanceOf, ledger>>
       ELSE IF to = NULL
       THEN /\ wagers' = [wagers EXCEPT ![id] = v]
            /\ last' = Call("submitReceipt", id, "", <<accepted>>)
            /\ UNCHANGED <<nextWagerId, balanceOf, ledger>>
       ELSE /\ wagers' = [wagers EXCEPT ![id] = _finalize(v, to, r.confidenceBps)]
            /\ balanceOf' = transfer(JUDGE, to, pot)
            /\ ledger' = [ledger EXCEPT ![id].paid = @ + pot,
                                        ![id].transfersOut = @ + 1,
                                        ![id].paidTo = to]
            /\ last' = Call("submitReceipt", id, "",
                            <<accepted, <<"Resolved", id, to, r.confidenceBps>>,
                              <<"Payout", id, to, pot>> >>)
            /\ UNCHANGED nextWagerId

-----------------------------------------------------------------------------
(* calls made by the token while the contract waits for a transfer *)

\* balances `bal` after `amount` moved from `from` to `to`
moved(bal, from, to, amount) ==
    [a \in DOMAIN bal |->
        IF from = to THEN bal[a]
        ELSE IF a = from THEN bal[a] - amount
        ELSE IF a = to THEN bal[a] + amount
        ELSE bal[a]]

\* outcome of a call the token makes into the contract before it moves the
\* balances of the transfer it was asked for: the error the call reverts with,
\* and the wager record, balances, ledger entry and events it leaves behind;
\* wm is the wager record as the waiting call has written it so far
Reentry(op, err, w, bal, led, events) == [op |-> op, err |-> err, w |-> w, bal |-> bal, led |-> led, events |-> events]

\* fundEscrow(id, side) entered by sender during a transfer
ReenteredFundEscrow(wm, id, sender, side) ==
    LET err == fundEscrowError(wm, sender, side, TRUE)
        amount == IF side = "A" THEN wm.stakeARequired ELSE wm.stakeBRequired
    IN IF err # ""
       THEN Reentry("fundEscrow", err, wm, balanceOf, ledger[id], <<>>)
       ELSE Reentry("fundEscrow", "", funded(wm, side), transfer(sender, JUDGE, amount),
                    [ledger[id] EXCEPT !.deposited = @ + amount],
                    << <<"EscrowFunded", id, sender, amount>> >>)

\* submitReceipt(r, signature) entered during a transfer
ReenteredSubmitReceipt(wm, id, r, signature) ==
    LET signer == recover(_hashReceiptTyped(r), signature)
        err == submitReceiptError(wm, r, signer, TRUE)
        v == voted(wm, r, signer)
        to == finalizeFor(v)
        pot == potOf(v)
        accepted == <<"ReceiptAccepted", id, signer, r.winner, r.confidenceBps>>
    IN IF err # ""
       THEN Reentry("submitReceipt", err, wm, balanceOf, ledger[id], <<>>)
       ELSE IF to = NULL
       THEN Reentry("submitReceipt", "", v, balanceOf, ledger[id], <<accepted>>)
       ELSE Reentry("submitReceipt", "", _finalize(v, to, r.confidenceBps),
                    transfer(JUDGE, to, pot),
                    [ledger[id] EXCEPT !.paid = @ + pot, !.transfersOut = @ + 1, !.paidTo = to],
                    <<accepted, <<"Resolved", id, to, r.confidenceBps>>,
                      <<"Payout", id, to, pot>> >>)

\* outcome of the latest call together with the call the token made into the
\* contract while it ran
CallReentered(op, id, err, events, inner) == [op |-> op, id |-> id, err |-> err, events |-> events, inner |-> [op |-> inner.op, err |-> inner.err]]

\* fundEscrow whose safeTransferFrom (lines 162, 169) lets the token call into
\* the contract: the flag and the escrow balance are written after it returns
FundEscrowReentered(sender, id, side, inner) ==
    LET w == wagers[id]
        amount == IF side = "A" THEN w.stakeARequired ELSE w.stakeBRequired
    IN IF inner.bal[sender] < amount
       THEN /\ last' = Call("fundEscrow", id, "TransferFailed", <<>>)
            /\ UNCHANGED <<nextWagerId, wagers, balanceOf, ledger>>
       ELSE /\ balanceOf' = moved(inner.bal, sender, JUDGE, amount)
            /\ wagers' = [wagers EXCEPT ![id] = funded(inner.w, side)]
            /\ ledger' = [ledger EXCEPT ![id] = [inner.led EXCEPT !.deposited = @ + amount]]
            /\ last' = CallReentered("fundEscrow", id, "",
                                      inner.events \o << <<"EscrowFunded", id, sender, amount>> >>,
                                      inner)
            /\ UNCHANGED nextWagerId

\* the wager record at the moment _finalize calls the token (line 249): its
\* writes of lines 239-247 are made
atTransfer_unwritten(v, to, confidenceBps) == v

atTransfer(v, to, confidenceBps) == _finalize(v, to, confidenceBps)

\* submitReceipt whose payout (line 249) lets the token call into the contract
SubmitReceiptReentered(sender, r, signature, inner) ==
    LET id == r.wagerId
        w == wagers[id]
        signer == recover(_hashReceiptTyped(r), signature)
        v == voted(w, r, signer)
        to == finalizeFor(v)
        pot == potOf(v)
        accepted == <<"ReceiptAccepted", id, signer, r.winner, r.confidenceBps>>
    IN IF inner.bal[JUDGE] < pot
       THEN /\ last' = Call("submitReceipt", id, "TransferFailed", <<>>)
            /\ UNCHANGED <<nextWagerId, wagers, balanceOf, ledger>>
       ELSE /\ balanceOf' = moved(inner.bal, JUDGE, to, pot)
            /\ wagers' = [wagers EXCEPT ![id] = inner.w]
            /\ ledger' = [ledger EXCEPT ![id] = [inner.led EXCEPT !.paid = @ + pot,
                                                                  !.transfersOut = @ + 1,
                                                                  !.paidTo = to]]
            /\ last' = CallReentered("submitReceipt", id, "",
                                      <<accepted, <<"Resolved", id, to, r.confidenceBps>> >>
                                          \o inner.events \o << <<"Payout", id, to, pot>> >>,
                                      inner)
            /\ UNCHANGED nextWagerId

-----------------------------------------------------------------------------
(* getters *)

getWagerCore(id) ==
    LET w == wagers[id]
    IN [partyA |-> w.partyA,
        partyB |-> w.partyB,
        token |-> w.token,
        stakeARequired |-> w.stakeARequired,
        stakeBRequired |-> w.stakeBRequired,
        fundedA |-> w.fundedA,
        fundedB |-> w.fundedB,
        resolved |-> w.resolved,
        winner |-> w.winner,
        winningConfidenceBps |-> w.winningConfidenceBps]

-----------------------------------------------------------------------------
(* Specification *)

\* the answers the token may give to a call: the token is consulted only by a
\* call that passes every check before the transfer
TokenResponses(consulted) == IF consulted THEN BOOLEAN ELSE {TRUE}

DoCreateWagerFrom(lists) ==
    /\ nextWagerId < MaxWagers
    /\ \E partyB \in {NULL, "bob"}, token \in {NULL, TOKEN},
          stakeARequired \in {0, 1}, stakeBRequired \in {0, 2},
          confidenceThresholdBps \in {0, 8000, BpsMax + 1},
          m \in 0 .. 2, arbitrators \in lists :
            CreateWager("alice", partyB, token, stakeARequired, stakeBRequired,
                        "claim", "sources", confidenceThresholdBps, m, arbitrators)

DoCreateWager == DoCreateWagerFrom(ArbitratorLists)

DoFundEscrow ==
    \E sender \in Parties \cup {"xavier"}, id \in WagerIds, side \in Sides :
        \E tokenAccepts \in
                TokenResponses(fundEscrowError(wagers[id], sender, side, FALSE) = "TransferFailed") :
            FundEscrow(sender, id, side, tokenAccepts)

DoAttachEvidence ==
    \E sender \in Parties \cup {"xavier"}, id \in WagerIds :
        AttachEvidence(sender, id, "root", "uri")

DoSubmitReceipt ==
    \E r \in Receipts :
        \E signature \in SignaturesFor(r) :
            \E tokenAccepts \in
                    TokenResponses(submitReceiptError(wagers[r.wagerId], r,
                                       recover(_hashReceiptTyped(r), signature), FALSE)
                                   = "TransferFailed") :
                SubmitReceipt("xavier", r, signature, tokenAccepts)

Next ==
    \/ DoCreateWager
    \/ DoFundEscrow
    \/ DoAttachEvidence
    \/ DoSubmitReceipt

Spec == Init /\ [][Next]_vars

\* the same contract, created with the 256-entry arbitrator list
NextLong ==
    \/ DoCreateWagerFrom({<<>>, LongList})
    \/ DoFundEscrow
    \/ DoAttachEvidence
    \/ DoSubmitReceipt

SpecLong == Init /\ [][NextLong]_vars

\* the evidence roots and URIs handed to attachEvidence
EvidenceValues == {<<"rootA", "ipfs://a">>, <<"rootB", "ipfs://b">>}

DoAttachEvidenceOf(evidence) ==
    \E sender \in Parties \cup {"xavier"}, id \in WagerIds, e \in evidence :
        AttachEvidence(sender, id, e[1], e[2])

\* the same contract with one-arbitrator wagers and two pieces of evidence
NextEvidence ==
    \/ DoCreateWagerFrom({<<>>, <<"xavier">>})
    \/ DoFundEscrow
    \/ DoAttachEvidenceOf(EvidenceValues)
    \/ DoSubmitReceipt

SpecEvidence == Init /\ [][NextEvidence]_vars

\* the same contract holding several wagers, each with the one arbitrator
\* xavier, a threshold of 8000 and a stake of 1 on either side
ManyIds == 0 .. MaxWagersMany

InitMany ==
    /\ nextWagerId = 0
    /\ wagers = [id \in ManyIds |-> ZeroWager]
    /\ balanceOf = [a \in Address \cup {JUDGE} |-> IF a \in Parties THEN InitBalance ELSE 0]
    /\ ledger = [id \in ManyIds |-> ZeroLedger]
    /\ last = Call("constructor", 0, "", <<>>)

DoCreateWagerMany ==
    /\ nextWagerId < MaxWagersMany
    /\ \E m \in 0 .. 1 :
          CreateWager("alice", "bob", TOKEN, 1, 1, "claim", "sources", 8000, m, <<"xavier">>)

DoFundEscrowMany ==
    \E sender \in Parties \cup {"xavier"}, id \in ManyIds, side \in Sides :
        \E tokenAccepts \in
                TokenResponses(fundEscrowError(wagers[id], sender, side, FALSE) = "TransferFailed") :
            FundEscrow(sender, id, side, tokenAccepts)

DoAttachEvidenceMany ==
    \E sender \in Parties \cup {"xavier"}, id \in ManyIds :
        AttachEvidence(sender, id, "root", "uri")

DoSubmitReceiptMany ==
    \E r \in [wagerId : ManyIds, winner : Parties, confidenceBps : {8000}] :
        \E signature \in SignaturesFor(r) :
            \E tokenAccepts \in
                    TokenResponses(submitReceiptError(wagers[r.wagerId], r,
                                       recover(_hashReceiptTyped(r), signature), FALSE)
                                   = "TransferFailed") :
                SubmitReceipt("xavier", r, signature, tokenAccepts)

NextMany ==
    \/ DoCreateWagerMany
    \/ DoFundEscrowMany
    \/ DoAttachEvidenceMany
    \/ DoSubmitReceiptMany

SpecMany == InitMany /\ [][NextMany]_vars

\* the same contract, created with a list that names xavier twice
NextTwice ==
    \/ DoCreateWagerFrom({<<>>, <<"xavier", "xavier">>})
    \/ DoFundEscrow
    \/ DoAttachEvidence
    \/ DoSubmitReceipt

SpecTwice == Init /\ [][NextTwice]_vars

\* the calls that reach their token transfer, with a token that may call into
\* the contract while it carries the transfer out (calls rejected before the
\* transfer change nothing and are left out); the wagers have the two
\* arbitrators xavier and yara, one of whom decides
DoCreateWagerPanel ==
    /\ nextWagerId < MaxWagersMany
    /\ \E m \in 0 .. 1 :
          CreateWager("alice", "bob", TOKEN, 1, 1, "claim", "sources", 8000, m,
                      <<"xavier", "yara">>)

\* what the token may do while wager id waits with the record wm: make no call,
\* or call fundEscrow or submitReceipt for that wager
Reentries(wm, id) ==
    {Reentry("none", "", wm, balanceOf, ledger[id], <<>>)}
        \cup {ReenteredFundEscrow(wm, id, sender, side) : sender \in Parties, side \in Sides}
        \cup {ReenteredSubmitReceipt(wm, id, x[1], x[2]) :
                  x \in {y \in [wagerId : {id}, winner : Parties, confidenceBps : {8000}]
                                    \X [by : Signers,
                                        over : [wagerId : {id}, winner : Parties,
                                                confidenceBps : {8000}]] :
                             y[2].over = y[1]}}

DoFundEscrowReentered ==
    \E sender \in Parties, id \in ManyIds, side \in Sides :
        /\ fundEscrowError(wagers[id], sender, side, TRUE) = ""
        /\ \E inner \in Reentries(wagers[id], id) :
               FundEscrowReentered(sender, id, side, inner)

DoSubmitReceiptReentered ==
    \E r \in [wagerId : ManyIds, winner : Parties, confidenceBps : {8000}] :
        \E signature \in SignaturesFor(r) :
            LET w == wagers[r.wagerId]
                signer == recover(_hashReceiptTyped(r), signature)
                v == voted(w, r, signer)
            IN /\ submitReceiptError(w, r, signer, TRUE) = ""
               /\ finalizeFor(v) # NULL
               /\ \E inner \in Reentries(atTransfer(v, finalizeFor(v), r.confidenceBps),
                                          r.wagerId) :
                      SubmitReceiptReentered("xavier", r, signature, inner)

NextReentrant ==
    \/ DoCreateWagerPanel
    \/ DoFundEscrowReentered
    \/ DoSubmitReceiptReentered

SpecReentrant == InitMany /\ [][NextReentrant]_vars

\* several wagers, each with a panel of its own: xavier alone or yara alone
DoCreateWagerOwnPanel ==
    /\ nextWagerId < MaxWagersMany
    /\ \E arbitrators \in {<<"xavier">>, <<"yara">>} :
          CreateWager("alice", "bob", TOKEN, 1, 1, "claim", "sources", 8000, 1, arbitrators)

NextPanels ==
    \/ DoCreateWagerOwnPanel
    \/ DoFundEscrowMany
    \/ DoSubmitReceiptMany

SpecPanels == InitMany /\ [][NextPanels]_vars

\* receipts handed in by accounts other than the arbitrator who signed them:
\* the panel is xavier alone, and the callers are a party and an outsider
Relayers == {"alice", "yara"}

DoSubmitReceiptRelayed ==
    \E sender \in Relayers :
        \E r \in [wagerId : ManyIds, winner : Parties, confidenceBps : {8000}] :
            \E signature \in SignaturesFor(r) :
                \E tokenAccepts \in
                        TokenResponses(submitReceiptError(wagers[r.wagerId], r,
                                           recover(_hashReceiptTyped(r), signature), FALSE)
                                       = "TransferFailed") :
                    SubmitReceipt(sender, r, signature, tokenAccepts)

NextRelay ==
    \/ DoCreateWagerMany
    \/ DoFundEscrowMany
    \/ DoSubmitReceiptRelayed

SpecRelay == InitMany /\ [][NextRelay]_vars

-----------------------------------------------------------------------------
(* Properties *)

\* the wagers createWager has stored
Created == {id \in WagerIds : wagers[id].partyA # NULL}

\* the events of the latest call that carry the given name
EventsNamed(name) == {i \in 1 .. Len(last.events) : last.events[i][1] = name}

\* the contract's storage and the token balances
store == <<nextWagerId, wagers, balanceOf, ledger>>

\* C1: a wager is resolved exactly when one of its vote counts has reached m:
\* it never resolves with both counts below m, and no call returns leaving a
\* count at m or above on an unresolved wager.
C1_ResolvedIffQuorum ==
    \A id \in Created :
        wagers[id].resolved <=>
            (\/ wagers[id].votesForA >= wagers[id].profile.m
             \/ wagers[id].votesForB >= wagers[id].profile.m)

\* a receipt has just brought a count to m = 2 and the wager is resolved
C1_Witness ==
    /\ last.op = "submitReceipt" /\ last.err = ""
    /\ last.id \in Created
    /\ wagers[last.id].resolved
    /\ wagers[last.id].profile.m = 2
    /\ wagers[last.id].votesForB = 2

C3_OneVotePerIdentity ==
    \A id \in Created :
        LET w == wagers[id]
        IN /\ w.votesForA + w.votesForB = Cardinality(w.arbitratorHasVoted)
           /\ w.votesForA + w.votesForB <= w.profile.n
           /\ (w.fundedA /\ w.fundedB /\ ~w.resolved) =>
                  \A r \in Receipts, signer \in w.arbitratorHasVoted :
                      r.wagerId = id =>
                          submitReceiptError(w, r, signer, TRUE) = "DuplicateReceipt"

\* C4: resolved never goes back to false; winner and winningConfidenceBps are
\* written only by the step that sets resolved, which is a submitReceipt whose
\* receipt brought a count to m, and they never change afterwards.
C4_ResolvedOnce ==
    [][\A id \in WagerIds :
          LET w == wagers[id]
              w2 == wagers'[id]
          IN /\ w.resolved =>
                    /\ w2.resolved
                    /\ w2.winner = w.winner
                    /\ w2.winningConfidenceBps = w.winningConfidenceBps
                    /\ ledger'[id] = ledger[id]
             /\ (~w.resolved /\ ~w2.resolved) =>
                    /\ w2.winner = w.winner
                    /\ w2.winningConfidenceBps = w.winningConfidenceBps
             /\ (~w.resolved /\ w2.resolved) =>
                    /\ last'.op = "submitReceipt" /\ last'.id = id /\ last'.err = ""
                    /\ w.votesForA < w.profile.m /\ w.votesForB < w.profile.m
                    /\ last'.events[2] = <<"Resolved", id, w2.winner, w2.winningConfidenceBps>>
                    /\ w2.winningConfidenceBps = last'.events[1][5]]_vars

\* a resolved wager on which a later vote was attempted
C4_Witness ==
    /\ last.op = "submitReceipt" /\ last.err = "AlreadyResolved"
    /\ wagers[last.id].resolved
    /\ wagers[last.id].profile.m = 1
    /\ Cardinality(wagers[last.id].profile.isArbitrator) = 2

\* C5: a resolved wager's winner is partyA or partyB, namely the party whose
\* count reached m, and is the winner named by the receipt that triggered
\* _finalize; an unresolved wager's winner is the null address.
C5_WinnerIsQuorumParty ==
    /\ \A id \in Created :
          LET w == wagers[id]
          IN IF w.resolved
             THEN /\ w.winner \in {w.partyA, w.partyB}
                  /\ w.winner = (IF w.votesForA >= w.profile.m THEN w.partyA ELSE w.partyB)
                  /\ (w.winner = w.partyB) => w.votesForB >= w.profile.m
             ELSE w.winner = NULL
    /\ (last.op = "submitReceipt" /\ EventsNamed("Resolved") # {}) =>
          /\ last.events[1][1] = "ReceiptAccepted"
          /\ last.events[1][4] = wagers[last.id].winner
          /\ last.events[2][3] = wagers[last.id].winner

\* party B has just won a wager that needed two votes
C5_Witness ==
    /\ last.op = "submitReceipt" /\ EventsNamed("Resolved") # {}
    /\ wagers[last.id].winner = wagers[last.id].partyB
    /\ wagers[last.id].votesForB = 2
    /\ wagers[last.id].votesForA = 0

ReceiptChecks ==
    <<"InvalidParams", "NotFunded", "AlreadyResolved", "NotArbitrator",
      "DuplicateReceipt", "ConfidenceTooLow", "UnknownWinner">>

\* receipt r signed by signer violates the precondition named e on wager w
Violates(e, w, r, signer) ==
    CASE e = "InvalidParams" -> w.partyA = NULL
      [] e = "NotFunded" -> ~(w.fundedA /\ w.fundedB)
      [] e = "AlreadyResolved" -> w.resolved
      [] e = "NotArbitrator" -> signer \notin w.profile.isArbitrator
      [] e = "DuplicateReceipt" -> signer \in w.arbitratorHasVoted
      [] e = "ConfidenceTooLow" -> r.confidenceBps < w.profile.confidenceThresholdBps
      [] e = "UnknownWinner" -> r.winner \notin {w.partyA, w.partyB}

\* the positions in ReceiptChecks of the preconditions the call violates
ViolatedChecks(w, r, signer) ==
    {i \in 1 .. Len(ReceiptChecks) : Violates(ReceiptChecks[i], w, r, signer)}

\* C7: a submitReceipt call that violates one or more preconditions is rejected
\* with the first violated one in the order InvalidParams, NotFunded,
\* AlreadyResolved, NotArbitrator, DuplicateReceipt, ConfidenceTooLow,
\* UnknownWinner, and a rejected call leaves the whole state unchanged.
C7_ReceiptCheckOrder ==
    /\ [](\A r \in Receipts :
             \A signature \in SignaturesFor(r), tokenAccepts \in BOOLEAN :
                 LET w == wagers[r.wagerId]
                     signer == recover(_hashReceiptTyped(r), signature)
                     bad == ViolatedChecks(w, r, signer)
                     err == submitReceiptError(w, r, signer, tokenAccepts)
                 IN IF bad # {}
                    THEN \E i \in bad : /\ \A j \in bad : i <= j
                                        /\ err = ReceiptChecks[i]
                    ELSE err \in {"", "TransferFailed"})
    /\ [][(last'.op = "submitReceipt" /\ last'.err # "") =>
             /\ UNCHANGED store
             /\ last'.events = <<>>]_vars

\* an arbitrator who has voted was just rejected with DuplicateReceipt, and a
\* resubmission below the threshold naming a stranger gets that error too
C7_Witness ==
    /\ last.op = "submitReceipt" /\ last.err = "DuplicateReceipt"
    /\ LET w == wagers[last.id]
           r == [wagerId |-> last.id, winner |-> "xavier", confidenceBps |-> 7000]
       IN /\ "xavier" \in w.arbitratorHasVoted
          /\ ViolatedChecks(w, r, "xavier") = {5, 6, 7}
          /\ submitReceiptError(w, r, "xavier", TRUE) = "DuplicateReceipt"
          /\ ViolatedChecks(w, r, "yara") = {6, 7}
          /\ submitReceiptError(w, r, "yara", TRUE) = "ConfidenceTooLow"

\* C8: on a resolved wager every fundEscrow call and every submitReceipt call
\* is rejected with AlreadyResolved, whoever calls and whatever the side,
\* receipt or signer, and leaves the whole state unchanged.
C8_TerminalClosed ==
    /\ [](\A id \in Created :
             wagers[id].resolved =>
                 /\ \A sender \in Address, side \in Sides, tokenAccepts \in BOOLEAN :
                        fundEscrowError(wagers[id], sender, side, tokenAccepts)
                            = "AlreadyResolved"
                 /\ \A r \in Receipts, signer \in Address \cup {STRANGER},
                       tokenAccepts \in BOOLEAN :
                        r.wagerId = id =>
                            submitReceiptError(wagers[id], r, signer, tokenAccepts)
                                = "AlreadyResolved")
    /\ [][\A id \in WagerIds :
             (/\ wagers[id].resolved
              /\ last'.op \in {"fundEscrow", "submitReceipt"}
              /\ last'.id = id) =>
                 /\ last'.err = "AlreadyResolved"
                 /\ UNCHANGED store]_vars

\* a receipt was just rejected with AlreadyResolved on a wager resolved by one
\* vote, whose other panel member has not voted
C8_Witness ==
    /\ last.op = "submitReceipt" /\ last.err = "AlreadyResolved"
    /\ wagers[last.id].resolved
    /\ wagers[last.id].profile.isArbitrator \ wagers[last.id].arbitratorHasVoted # {}
    /\ wagers[last.id].evidenceURI = "uri"

\* C9: when the payout transfer fails the submitReceipt call that triggered
\* _finalize changes nothing, so a resolved wager always has both escrow
\* balances at 0 and its pot paid to the winner in one transfer.
C9_FinalizeAllOrNothing ==
    /\ [](\A id \in Created :
             wagers[id].resolved =>
                 /\ wagers[id].stakeA + wagers[id].stakeB = 0
                 /\ ledger[id].transfersOut = 1
                 /\ ledger[id].paidTo = wagers[id].winner
                 /\ ledger[id].paid = wagers[id].stakeARequired + wagers[id].stakeBRequired)
    /\ [][(last'.op = "submitReceipt" /\ last'.err = "TransferFailed") =>
             /\ UNCHANGED store
             /\ ~wagers'[last'.id].resolved
             /\ wagers'[last'.id].stakeA + wagers'[last'.id].stakeB
                    = wagers'[last'.id].stakeARequired + wagers'[last'.id].stakeBRequired]_vars

\* the second vote for party A of a wager with m = 2 was just rejected because
\* the payout failed: one vote counted, the wager unresolved, the stakes held
C9_Witness ==
    /\ last.op = "submitReceipt" /\ last.err = "TransferFailed"
    /\ LET w == wagers[last.id]
       IN /\ ~w.resolved
          /\ w.profile.m = 2
          /\ w.votesForA = 1 /\ w.votesForB = 0
          /\ Cardinality(w.arbitratorHasVoted) = 1
          /\ w.stakeA = 1 /\ w.stakeB = 2
          /\ balanceOf[JUDGE] = 3

\* C10: tokens leave the contract only in the payout of a resolving step: per
\* wager there is at most one outgoing transfer, it never exceeds what was
\* deposited for the wager, and no step lowers an escrow balance of a wager
\* that is unresolved after it.
C10_SinglePayout ==
    /\ [](\A id \in WagerIds :
             /\ ledger[id].transfersOut <= 1
             /\ ledger[id].paid <= ledger[id].deposited)
    /\ [][/\ \A id \in WagerIds :
                ~wagers'[id].resolved =>
                    /\ wagers'[id].stakeA >= wagers[id].stakeA
                    /\ wagers'[id].stakeB >= wagers[id].stakeB
                    /\ ledger'[id].transfersOut = 0
          /\ balanceOf'[JUDGE] < balanceOf[JUDGE] =>
                \E id \in WagerIds :
                    /\ ~wagers[id].resolved /\ wagers'[id].resolved
                    /\ balanceOf[JUDGE] - balanceOf'[JUDGE] = ledger'[id].paid
                    /\ ledger'[id].paid = ledger'[id].deposited
                    /\ \A other \in WagerIds \ {id} : ledger'[other] = ledger[other]]_vars

\* a paid-out wager on which funding was attempted afterwards
C10_Witness ==
    /\ last.op = "fundEscrow"
    /\ ledger[last.id].transfersOut = 1
    /\ ledger[last.id].paid = 3
    /\ ledger[last.id].deposited = 3
    /\ balanceOf[JUDGE] = 0

-----------------------------------------------------------------------------

\* the createWager arguments the claim lists as invalid
InvalidCreate(partyB, token, stakeARequired, stakeBRequired, confidenceThresholdBps, m, arbitrators) ==
    \/ partyB = NULL
    \/ token = NULL
    \/ stakeARequired = 0
    \/ stakeBRequired = 0
    \/ confidenceThresholdBps = 0
    \/ confidenceThresholdBps > 10000
    \/ arbitrators = <<>>
    \/ m = 0
    \/ m > Len(arbitrators)

\* C11: createWager is rejected with InvalidParams whenever partyB or the token
\* is null, a required stake is 0, the threshold is 0 or above 10000, the list
\* is empty, m is 0 or m exceeds the list length, so every wager it stores was
\* created from arguments with none of these defects; a rejected createWager
\* allocates no id and leaves every wager record as it was.
C11_InvalidParamsRejected ==
    /\ [](\A partyB \in {NULL, "bob"}, token \in {NULL, TOKEN},
             stakeARequired \in {0, 1}, stakeBRequired \in {0, 2},
             confidenceThresholdBps \in {0, 8000, BpsMax + 1},
             m \in 0 .. 2, arbitrators \in ArbitratorLists \cup {LongList} :
               InvalidCreate(partyB, token, stakeARequired, stakeBRequired,
                             confidenceThresholdBps, m, arbitrators)
               => createWagerError(partyB, token, stakeARequired, stakeBRequired,
                                   confidenceThresholdBps, m, arbitrators) = "InvalidParams")
    /\ [][last'.op = "createWager" =>
            IF last'.err = ""
            THEN LET w == wagers'[last'.id]
                 IN ~InvalidCreate(w.partyB, w.token, w.stakeARequired, w.stakeBRequired,
                                   w.profile.confidenceThresholdBps, w.profile.m,
                                   w.profile.arbitrators)
            ELSE /\ last'.err = "InvalidParams"
                 /\ last'.id = 0
                 /\ UNCHANGED store]_vars

\* a createWager has just been rejected and no wager exists
C11_Witness ==
    /\ last.op = "createWager"
    /\ last.err = "InvalidParams"
    /\ nextWagerId = 0
    /\ Created = {}

-----------------------------------------------------------------------------

\* C12 as stated: the profile createWager stores satisfies 1 <= m <= n, and n
\* is the number of entries of the arbitrator list it was given, for every
\* list length createWager accepts.
C12_ProfileWithinPanel ==
    \A id \in Created :
        LET p == wagers[id].profile
        IN /\ 1 <= p.m
           /\ p.m <= p.n
           /\ p.n = Len(p.arbitrators)

-----------------------------------------------------------------------------

\* C13: winningConfidenceBps is 0 while a wager is unresolved; the step that
\* resolves it stores the confidenceBps of the one receipt accepted in that
\* step, the receipt that brought its party's count from m - 1 to m, whatever
\* the confidence of the receipts accepted before; the stored value is at
\* least the wager's threshold.
C13_WinningConfidence ==
    /\ [](\A id \in Created :
            LET w == wagers[id]
            IN IF w.resolved
               THEN w.winningConfidenceBps >= w.profile.confidenceThresholdBps
               ELSE w.winningConfidenceBps = 0)
    /\ [][\A id \in Created :
            LET w == wagers[id]
                w2 == wagers'[id]
            IN (~w.resolved /\ w2.resolved) =>
                   /\ Len(last'.events) = 3
                   /\ last'.events[1][1] = "ReceiptAccepted"
                   /\ last'.events[1][2] = id
                   /\ w2.winningConfidenceBps = last'.events[1][5]
                   /\ IF last'.events[1][4] = w.partyA
                      THEN w.votesForA = w.profile.m - 1 /\ w2.votesForA = w.profile.m
                      ELSE w.votesForB = w.profile.m - 1 /\ w2.votesForB = w.profile.m]_vars

\* a wager that needed two votes has just been resolved by a receipt of
\* confidence 20000, above its threshold of 8000
C13_Witness ==
    /\ last.op = "submitReceipt"
    /\ EventsNamed("Resolved") # {}
    /\ wagers[last.id].profile.m = 2
    /\ wagers[last.id].profile.confidenceThresholdBps = 8000
    /\ wagers[last.id].winningConfidenceBps = 20000
    /\ last.events[1][5] = 20000

-----------------------------------------------------------------------------

\* the panel members of wager w who have not voted
Unvoted(w) == w.profile.isArbitrator \ w.arbitratorHasVoted

\* C14: on a fully funded, unresolved wager a receipt signed by a panel member
\* who has not voted is rejected with ConfidenceTooLow when its confidence is
\* below the threshold, whatever winner it names, and the rejected call leaves
\* arbitratorHasVoted, both counts and everything else unchanged; so the
\* member is still unvoted afterwards, and a receipt by the same member with a
\* confidence at or above the threshold naming a party is then accepted.
C14_LowConfidenceKeepsVote ==
    /\ [](\A id \in Created :
            LET w == wagers[id]
            IN (w.fundedA /\ w.fundedB /\ ~w.resolved) =>
                   \A signer \in Unvoted(w), r \in Receipts :
                       r.wagerId = id =>
                           IF r.confidenceBps < w.profile.confidenceThresholdBps
                           THEN \A tokenAccepts \in BOOLEAN :
                                    submitReceiptError(w, r, signer, tokenAccepts)
                                        = "ConfidenceTooLow"
                           ELSE r.winner \in {w.partyA, w.partyB} =>
                                    submitReceiptError(w, r, signer, TRUE) = "")
    /\ [][(last'.op = "submitReceipt" /\ last'.err = "ConfidenceTooLow") =>
               /\ UNCHANGED store
               /\ Unvoted(wagers'[last'.id]) # {}]_vars

\* the only panel member of a funded wager was just rejected with
\* ConfidenceTooLow, is still unvoted, and a receipt of confidence 8000 from
\* the same member would be accepted
C14_Witness ==
    /\ last.op = "submitReceipt"
    /\ last.err = "ConfidenceTooLow"
    /\ wagers[last.id].profile.arbitrators = <<"xavier">>
    /\ wagers[last.id].arbitratorHasVoted = {}
    /\ wagers[last.id].votesForA = 0 /\ wagers[last.id].votesForB = 0
    /\ submitReceiptError(wagers[last.id],
                          [wagerId |-> last.id, winner |-> "alice", confidenceBps |-> 8000],
                          "xavier", TRUE) = ""

-----------------------------------------------------------------------------

\* the identities on the arbitrator list of wager w
Listed(w) == {w.profile.arbitrators[i] : i \in 1 .. Len(w.profile.arbitrators)}

\* C15: on a fully funded, unresolved wager a receipt whose signature recovers
\* to an identity that is not on the wager's arbitrator list is rejected with
\* NotArbitrator whatever wager fields it carries, and the rejected call leaves
\* the whole state unchanged; a step that changes a wager's counts or its set
\* of voters accepted a receipt signed by a listed identity and marks exactly
\* that identity.
C15_OutsidersRejected ==
    /\ [](\A id \in Created :
            LET w == wagers[id]
            IN (w.fundedA /\ w.fundedB /\ ~w.resolved) =>
                   \A signer \in (Address \cup {STRANGER}) \ Listed(w), r \in Receipts,
                      tokenAccepts \in BOOLEAN :
                       r.wagerId = id =>
                           submitReceiptError(w, r, signer, tokenAccepts) = "NotArbitrator")
    /\ [][/\ (last'.op = "submitReceipt" /\ last'.err = "NotArbitrator") => UNCHANGED store
          /\ \A id \in Created :
                LET w == wagers[id]
                    w2 == wagers'[id]
                IN (\/ w2.votesForA # w.votesForA
                    \/ w2.votesForB # w.votesForB
                    \/ w2.arbitratorHasVoted # w.arbitratorHasVoted) =>
                       /\ last'.op = "submitReceipt" /\ last'.id = id /\ last'.err = ""
                       /\ last'.events[1][1] = "ReceiptAccepted"
                       /\ last'.events[1][3] \in Listed(w) \ w.arbitratorHasVoted
                       /\ w2.arbitratorHasVoted
                              = w.arbitratorHasVoted \cup {last'.events[1][3]}]_vars

\* a receipt on a funded, unresolved wager whose only arbitrator is xavier
\* was just rejected with NotArbitrator
C15_Witness ==
    /\ last.op = "submitReceipt"
    /\ last.err = "NotArbitrator"
    /\ wagers[last.id].profile.arbitrators = <<"xavier">>
    /\ wagers[last.id].fundedA /\ wagers[last.id].fundedB
    /\ ~wagers[last.id].resolved
    /\ wagers[last.id].arbitratorHasVoted = {}

-----------------------------------------------------------------------------

\* the party that funds the given side of wager w
PartyOf(w, side) == IF side = "A" THEN w.partyA ELSE w.partyB

\* the funded flag of the given side of wager w
IsFunded(w, side) == IF side = "A" THEN w.fundedA ELSE w.fundedB

\* C16: on an existing, unresolved wager fundEscrow for a side is rejected
\* with NotParty when the caller is not that side's party, and with
\* AlreadyFunded when the caller is that side's party and the side is funded;
\* a call rejected with either error moves no tokens and changes no field.
C16_WrongCallerOrFundedTwice ==
    /\ [](\A id \in Created :
            LET w == wagers[id]
            IN ~w.resolved =>
                   \A sender \in Address, side \in Sides, tokenAccepts \in BOOLEAN :
                       /\ sender # PartyOf(w, side) =>
                              fundEscrowError(w, sender, side, tokenAccepts) = "NotParty"
                       /\ (sender = PartyOf(w, side) /\ IsFunded(w, side)) =>
                              fundEscrowError(w, sender, side, tokenAccepts) = "AlreadyFunded")
    /\ [][(last'.op = "fundEscrow" /\ last'.err \in {"NotParty", "AlreadyFunded"}) =>
               UNCHANGED store]_vars

\* the second funding of side A of an unresolved wager was just rejected while
\* side B is still open
C16_Witness ==
    /\ last.op = "fundEscrow"
    /\ last.err = "AlreadyFunded"
    /\ wagers[last.id].fundedA
    /\ ~wagers[last.id].fundedB
    /\ ~wagers[last.id].resolved
    /\ balanceOf[JUDGE] = wagers[last.id].stakeARequired

-----------------------------------------------------------------------------

\* the stake the given side of wager w has to deposit
RequiredOf(w, side) == IF side = "A" THEN w.stakeARequired ELSE w.stakeBRequired

\* the escrow balance of the given side of wager w
EscrowOf(w, side) == IF side = "A" THEN w.stakeA ELSE w.stakeB

\* C17: a fundEscrow call whose token transfer fails, because the token
\* refuses it or the caller holds less than the stake, is rejected as a whole:
\* storage and balances are unchanged, so the side is still unfunded with an
\* escrow balance of 0; and the party of an unfunded side of an unresolved
\* wager funds it successfully as soon as the transfer goes through.
C17_FailedTransferAborts ==
    /\ [](\A id \in Created, side \in Sides :
            LET w == wagers[id]
                party == PartyOf(w, side)
            IN (~w.resolved /\ ~IsFunded(w, side)) =>
                   /\ EscrowOf(w, side) = 0
                   /\ fundEscrowError(w, party, side, FALSE) = "TransferFailed"
                   /\ fundEscrowError(w, party, side, TRUE)
                          = IF balanceOf[party] >= RequiredOf(w, side)
                            THEN "" ELSE "TransferFailed")
    /\ [][(last'.op = "fundEscrow" /\ last'.err = "TransferFailed") =>
               /\ UNCHANGED store
               /\ \E side \in Sides :
                      /\ ~IsFunded(wagers'[last'.id], side)
                      /\ EscrowOf(wagers'[last'.id], side) = 0]_vars

\* the token has just refused a funding of a wager on which nothing is
\* deposited, and party A, who holds its stake, can still fund side A
C17_Witness ==
    /\ last.op = "fundEscrow"
    /\ last.err = "TransferFailed"
    /\ ~wagers[last.id].fundedA /\ ~wagers[last.id].fundedB
    /\ wagers[last.id].stakeA = 0 /\ wagers[last.id].stakeB = 0
    /\ balanceOf[JUDGE] = 0
    /\ fundEscrowError(wagers[last.id], wagers[last.id].partyA, "A", TRUE) = ""

-----------------------------------------------------------------------------

\* C18: on an existing wager attachEvidence succeeds exactly when the caller
\* is partyA or partyB and is rejected with NotParty otherwise, whether the
\* wager is unfunded, partially funded, fully funded or resolved; a successful
\* call replaces evidenceRoot and evidenceURI by the values given, whatever
\* they were before, and changes no other field of any wager, no balance and
\* no id; a rejected call changes nothing.
C18_EvidenceByPartiesAnyStage ==
    /\ [](\A id \in Created, sender \in Address :
            attachEvidenceError(wagers[id], sender)
                = IF sender \in {wagers[id].partyA, wagers[id].partyB}
                  THEN "" ELSE "NotParty")
    /\ [][last'.op = "attachEvidence" =>
            IF last'.err = ""
            THEN /\ last'.id \in Created
                 /\ Len(last'.events) = 1
                 /\ last'.events[1][1] = "EvidenceAttached"
                 /\ last'.events[1][2] = last'.id
                 /\ wagers' = [wagers EXCEPT
                                   ![last'.id].evidenceRoot = last'.events[1][3],
                                   ![last'.id].evidenceURI = last'.events[1][4]]
                 /\ UNCHANGED <<nextWagerId, balanceOf, ledger>>
            ELSE /\ last'.err = "NotParty"
                 /\ UNCHANGED store]_vars

\* party B has just attached the second piece of evidence to a resolved wager
C18_Witness ==
    /\ last.op = "attachEvidence"
    /\ last.err = ""
    /\ wagers[last.id].resolved
    /\ wagers[last.id].winner = "alice"
    /\ wagers[last.id].evidenceRoot = "rootB"
    /\ wagers[last.id].evidenceURI = "ipfs://b"

-----------------------------------------------------------------------------

\* C19: wager ids are 1, 2, 3, ... in the order of creation: the wagers that
\* exist are exactly those with ids 1 .. nextWagerId, so nextWagerId is the
\* number of wagers created; nextWagerId changes only in a successful
\* createWager, which raises it by one and returns the new value as the id;
\* that id held no wager before, and the call leaves every other record as it
\* was.
C19_IdsCountUp ==
    /\ []({id \in DOMAIN wagers : wagers[id].partyA # NULL} = 1 .. nextWagerId)
    /\ [][/\ nextWagerId' # nextWagerId =>
                 last'.op = "createWager" /\ last'.err = ""
          /\ (last'.op = "createWager" /\ last'.err = "") =>
                 /\ nextWagerId' = nextWagerId + 1
                 /\ last'.id = nextWagerId'
                 /\ last'.events[1][2] = last'.id
                 /\ wagers[last'.id] = ZeroWager
                 /\ wagers'[last'.id].partyA # NULL
                 /\ \A id \in DOMAIN wagers \ {last'.id} : wagers'[id] = wagers[id]]_vars

\* a second wager has just been created with id 2 while the first one is
\* funded on both sides
C19_Witness ==
    /\ last.op = "createWager"
    /\ last.err = ""
    /\ last.id = 2
    /\ nextWagerId = 2
    /\ wagers[1].fundedA /\ wagers[1].fundedB
    /\ ~wagers[2].fundedA /\ ~wagers[2].fundedB

-----------------------------------------------------------------------------

\* C20: a successful createWager leaves every balance as it was and stores a
\* wager whose partyA is the caller and whose partyB, token and required
\* stakes are the arguments, with escrow balances 0, both funded flags and
\* resolved false, a null winner, winningConfidenceBps 0, no votes and no
\* voters; once the two deposits that follow are made, getWagerCore reports
\* the same parties, token and required stakes with fundedA and fundedB true,
\* resolved false, a null winner and confidence 0.
C20_FreshWagerThenFunded ==
    /\ [](\A id \in Created :
            (/\ last.op = "fundEscrow" /\ last.id = id /\ last.err = ""
             /\ ledger[id].deposited
                    = wagers[id].stakeARequired + wagers[id].stakeBRequired) =>
                getWagerCore(id) = [partyA |-> "alice",
                                    partyB |-> wagers[id].partyB,
                                    token |-> TOKEN,
                                    stakeARequired |-> wagers[id].stakeARequired,
                                    stakeBRequired |-> wagers[id].stakeBRequired,
                                    fundedA |-> TRUE,
                                    fundedB |-> TRUE,
                                    resolved |-> FALSE,
                                    winner |-> NULL,
                                    winningConfidenceBps |-> 0])
    /\ [][(last'.op = "createWager" /\ last'.err = "") =>
            LET e == last'.events[1]
                w2 == wagers'[last'.id]
            IN /\ UNCHANGED <<balanceOf, ledger>>
               /\ e[1] = "WagerCreated"
               /\ e[3] = "alice"
               /\ w2.partyA = e[3]
               /\ w2.partyB = e[4]
               /\ w2.token = e[5]
               /\ w2.stakeARequired = e[6]
               /\ w2.stakeBRequired = e[7]
               /\ w2.stakeA = 0 /\ w2.stakeB = 0
               /\ ~w2.fundedA /\ ~w2.fundedB
               /\ ~w2.resolved
               /\ w2.winner = NULL
               /\ w2.winningConfidenceBps = 0
               /\ w2.votesForA = 0 /\ w2.votesForB = 0
               /\ w2.arbitratorHasVoted = {}]_vars

\* the second deposit on a wager created by alice against bob has just been
\* made and getWagerCore shows both sides funded
C20_Witness ==
    /\ last.op = "fundEscrow"
    /\ last.err = ""
    /\ getWagerCore(last.id).partyA = "alice"
    /\ getWagerCore(last.id).partyB = "bob"
    /\ getWagerCore(last.id).fundedA
    /\ getWagerCore(last.id).fundedB
    /\ ~getWagerCore(last.id).resolved
    /\ balanceOf[JUDGE] = 3

-----------------------------------------------------------------------------

\* the names of the events of the latest call, in the order of emission
EventNames == [i \in 1 .. Len(last.events) |-> last.events[i][1]]

-----------------------------------------------------------------------------

\* C22: fundEscrow and submitReceipt naming an id under which no wager was
\* created, id 0 and ids above nextWagerId included, are rejected with
\* InvalidParams whoever calls, whatever the side, the receipt and its signer,
\* and the rejected call leaves the whole state unchanged.
C22_UnknownWagerRejected ==
    /\ [](\A id \in {i \in DOMAIN wagers : wagers[i].partyA = NULL} :
            /\ id = 0 \/ id > nextWagerId
            /\ \A sender \in Address, side \in Sides, tokenAccepts \in BOOLEAN :
                   fundEscrowError(wagers[id], sender, side, tokenAccepts) = "InvalidParams"
            /\ \A r \in Receipts, signer \in Address \cup {STRANGER},
                  tokenAccepts \in BOOLEAN :
                   r.wagerId = id =>
                       submitReceiptError(wagers[id], r, signer, tokenAccepts)
                           = "InvalidParams")
    /\ [][(last'.op \in {"fundEscrow", "submitReceipt"} /\ wagers[last'.id].partyA = NULL) =>
               /\ last'.err = "InvalidParams"
               /\ UNCHANGED store]_vars

\* a call naming id 0 was just rejected with InvalidParams while wager 1
\* exists and is funded on side A
C22_Witness ==
    /\ last.op \in {"fundEscrow", "submitReceipt"}
    /\ last.id = 0
    /\ last.err = "InvalidParams"
    /\ nextWagerId = 1
    /\ wagers[1].fundedA

-----------------------------------------------------------------------------

\* the latest call is one during which the token called the named function
ReenteredBy(op) == "inner" \in DOMAIN last /\ last.inner.op = op

\* C23: when the token, asked by _finalize to pay the winner, calls
\* submitReceipt or fundEscrow for the same wager, that call finds the wager
\* resolved with both escrow balances at 0 and is rejected with
\* AlreadyResolved; the step that resolves a wager makes one transfer, of the
\* pot as it stood before the step, and no wager ever has a second one.
C23_NoReentrantDoublePayout ==
    /\ []((/\ last.op = "submitReceipt"
           /\ ReenteredBy("submitReceipt") \/ ReenteredBy("fundEscrow")) =>
              /\ last.inner.err = "AlreadyResolved"
              /\ wagers[last.id].resolved
              /\ wagers[last.id].stakeA = 0 /\ wagers[last.id].stakeB = 0
              /\ Len(last.events) = 3)
    /\ [][\A id \in DOMAIN wagers :
            LET w == wagers[id]
                w2 == wagers'[id]
            IN /\ ledger'[id].transfersOut <= 1
               /\ (~w.resolved /\ w2.resolved) =>
                      /\ ledger'[id].transfersOut = 1
                      /\ ledger'[id].paid = w.stakeA + w.stakeB
                      /\ balanceOf'[JUDGE] = balanceOf[JUDGE] - (w.stakeA + w.stakeB)
               /\ w.resolved => ledger'[id] = ledger[id]]_vars

\* the token called submitReceipt again while wager 1 was being paid out; the
\* call was rejected and the pot was paid once
C23_Witness ==
    /\ last.op = "submitReceipt"
    /\ last.err = ""
    /\ ReenteredBy("submitReceipt")
    /\ last.inner.err = "AlreadyResolved"
    /\ wagers[last.id].resolved
    /\ ledger[last.id].transfersOut = 1
    /\ ledger[last.id].paid = ledger[last.id].deposited

-----------------------------------------------------------------------------

\* C24 as stated: once a wager is resolved, no call changes any field of its
\* record, evidenceRoot and evidenceURI included.
C24_ResolvedRecordFrozen ==
    [][\A id \in Created : wagers[id].resolved => wagers'[id] = wagers[id]]_vars

\* C24, amended: once a wager is resolved, no call changes any field of its
\* record other than evidenceRoot and evidenceURI, and these two change only
\* by a successful attachEvidence for that wager, which partyA and partyB can
\* still call.
C24_ResolvedRecordFrozenButEvidence ==
    /\ [](\A id \in Created :
            wagers[id].resolved =>
                /\ attachEvidenceError(wagers[id], wagers[id].partyA) = ""
                /\ attachEvidenceError(wagers[id], wagers[id].partyB) = "")
    /\ [][\A id \in Created :
            LET w == wagers[id]
                w2 == wagers'[id]
            IN w.resolved =>
                   /\ w2 = [w EXCEPT !.evidenceRoot = w2.evidenceRoot,
                                     !.evidenceURI = w2.evidenceURI]
                   /\ w2 # w =>
                          /\ last'.op = "attachEvidence" /\ last'.id = id /\ last'.err = ""
                          /\ w2.evidenceRoot = last'.events[1][3]
                          /\ w2.evidenceURI = last'.events[1][4]]_vars

\* evidence was just attached to a wager that had been resolved and paid out
\* with two arbitrators on its panel
C24_Witness ==
    /\ last.op = "attachEvidence"
    /\ last.err = ""
    /\ wagers[last.id].resolved
    /\ ledger[last.id].transfersOut = 1
    /\ wagers[last.id].evidenceRoot = "root"
    /\ Cardinality(wagers[last.id].profile.isArbitrator) = 2

-----------------------------------------------------------------------------

\* the receipts for wager id that pass the confidence and winner checks
Qualifying(id) ==
    {r \in Receipts : /\ r.wagerId = id
                      /\ r.confidenceBps >= wagers[id].profile.confidenceThresholdBps
                      /\ r.winner \in {wagers[id].partyA, wagers[id].partyB}}

\* C25 as stated: a receipt from a panel member who has not voted, arriving
\* after the wager is resolved, is taken in: submitReceipt does not reject it
\* (it marks the member as voted and raises a count without finalizing again).
C25_LateVoteRecorded ==
    \A id \in Created :
        wagers[id].resolved =>
            \A signer \in Unvoted(wagers[id]), r \in Qualifying(id) :
                submitReceiptError(wagers[id], r, signer, TRUE) = ""

\* C25, amended: a receipt from a panel member who has not voted, arriving
\* after the wager is resolved, is rejected with AlreadyResolved; the set of
\* voters and both counts of a resolved wager never change again, a
\* submitReceipt naming it emits nothing, and no further transfer is made.
C25_LateVoteRejected ==
    /\ [](\A id \in Created :
            wagers[id].resolved =>
                \A signer \in Unvoted(wagers[id]), r \in Qualifying(id),
                   tokenAccepts \in BOOLEAN :
                    submitReceiptError(wagers[id], r, signer, tokenAccepts)
                        = "AlreadyResolved")
    /\ [][\A id \in Created :
            LET w == wagers[id]
                w2 == wagers'[id]
            IN w.resolved =>
                   /\ w2.arbitratorHasVoted = w.arbitratorHasVoted
                   /\ w2.votesForA = w.votesForA
                   /\ w2.votesForB = w.votesForB
                   /\ ledger'[id].transfersOut = ledger[id].transfersOut
                   /\ (last'.op = "submitReceipt" /\ last'.id = id) =>
                          last'.events = <<>>]_vars

\* a receipt was just rejected on a wager that xavier's single vote resolved
\* while yara, the other panel member, has not voted
C25_Witness ==
    /\ last.op = "submitReceipt"
    /\ last.err = "AlreadyResolved"
    /\ wagers[last.id].resolved
    /\ wagers[last.id].arbitratorHasVoted = {"xavier"}
    /\ Unvoted(wagers[last.id]) = {"yara"}
    /\ wagers[last.id].votesForA + wagers[last.id].votesForB = 1

-----------------------------------------------------------------------------

\* C26 as stated: on a wager whose list is [xavier, xavier] with m = 2, once
\* xavier's one receipt is accepted a count has reached m and the wager is
\* resolved.
C26_TwiceListedResolvesAlone ==
    \A id \in Created :
        LET w == wagers[id]
        IN (/\ w.profile.arbitrators = <<"xavier", "xavier">>
            /\ w.profile.m = 2
            /\ "xavier" \in w.arbitratorHasVoted) => w.resolved

\* C26, amended: an identity that the list names twice still has one vote:
\* the two counts together equal the number of identities that have voted,
\* which is at most the number of distinct identities listed; an accepted
\* receipt raises them by exactly one; on a funded, unresolved wager a further
\* receipt from an identity that has voted is rejected with DuplicateReceipt;
\* and a wager whose list has fewer than m distinct identities is never
\* resolved.
C26_TwiceListedVotesOnce ==
    /\ [](\A id \in Created :
            LET w == wagers[id]
            IN /\ w.votesForA + w.votesForB = Cardinality(w.arbitratorHasVoted)
               /\ w.arbitratorHasVoted \subseteq Listed(w)
               /\ Cardinality(Listed(w)) < w.profile.m => ~w.resolved
               /\ (w.fundedA /\ w.fundedB /\ ~w.resolved) =>
                      \A signer \in w.arbitratorHasVoted, r \in Receipts,
                         tokenAccepts \in BOOLEAN :
                          r.wagerId = id =>
                              submitReceiptError(w, r, signer, tokenAccepts)
                                  = "DuplicateReceipt")
    /\ [][\A id \in Created :
            (last'.op = "submitReceipt" /\ last'.id = id /\ last'.err = "") =>
                wagers'[id].votesForA + wagers'[id].votesForB
                    = wagers[id].votesForA + wagers[id].votesForB + 1]_vars

\* on a funded wager with the list [xavier, xavier] and m = 2 xavier has
\* voted once, a second receipt was just rejected as a duplicate, and the
\* wager is unresolved with one vote counted
C26_Witness ==
    /\ last.op = "submitReceipt"
    /\ last.err = "DuplicateReceipt"
    /\ wagers[last.id].profile.arbitrators = <<"xavier", "xavier">>
    /\ wagers[last.id].profile.m = 2
    /\ wagers[last.id].arbitratorHasVoted = {"xavier"}
    /\ wagers[last.id].votesForA + wagers[last.id].votesForB = 1
    /\ ~wagers[last.id].resolved

-----------------------------------------------------------------------------

\* C27 as stated: every receipt submitReceipt accepts has a confidenceBps
\* between the wager's threshold and 10000, so the winningConfidenceBps of a
\* resolved wager is at most 10000.
C27_ConfidenceInBasisPoints ==
    /\ \A id \in Created : wagers[id].winningConfidenceBps <= BpsMax
    /\ \A i \in EventsNamed("ReceiptAccepted") :
           /\ last.events[i][5] >= wagers[last.id].profile.confidenceThresholdBps
           /\ last.events[i][5] <= BpsMax

-----------------------------------------------------------------------------

\* C28 as stated: attachEvidence naming an id under which no wager was created
\* is rejected with InvalidParams and changes nothing.
C28_EvidenceOnUnknownWager ==
    (last.op = "attachEvidence" /\ wagers[last.id].partyA = NULL) =>
        /\ last.err = "InvalidParams"
        /\ last.events = <<>>

-----------------------------------------------------------------------------

\* C29 as stated: also when the token calls back into fundEscrow during the
\* transfer, the escrow balance of a side never exceeds its required stake and
\* each required stake is pulled at most once.
C29_FundedOnceUnderReentry ==
    \A id \in {i \in DOMAIN wagers : wagers[i].partyA # NULL} :
        LET w == wagers[id]
        IN /\ w.stakeA <= w.stakeARequired
           /\ w.stakeB <= w.stakeBRequired
           /\ ledger[id].deposited <= w.stakeARequired + w.stakeBRequired

-----------------------------------------------------------------------------

\* the escrow balances of the wagers with the given ids, added up
RECURSIVE EscrowTotal(_)
EscrowTotal(ids) ==
    IF ids = {} THEN 0
    ELSE LET id == CHOOSE i \in ids : TRUE
         IN wagers[id].stakeA + wagers[id].stakeB + EscrowTotal(ids \ {id})

\* C30: the contract's token balance always equals the sum of stakeA + stakeB
\* over all wagers (all of them are denominated in the one token); the step
\* that resolves a wager takes exactly that wager's two escrow balances out of
\* the contract and leaves the escrow balances of every other wager, and the
\* tokens behind them, in place.
C30_SolventAcrossWagers ==
    /\ [](balanceOf[JUDGE] = EscrowTotal(DOMAIN wagers))
    /\ [][\A id \in DOMAIN wagers :
            (~wagers[id].resolved /\ wagers'[id].resolved) =>
                /\ balanceOf'[JUDGE]
                       = balanceOf[JUDGE] - (wagers[id].stakeA + wagers[id].stakeB)
                /\ balanceOf'[JUDGE] = EscrowTotal(DOMAIN wagers \ {id})
                /\ \A other \in DOMAIN wagers \ {id} :
                       /\ wagers'[other].stakeA = wagers[other].stakeA
                       /\ wagers'[other].stakeB = wagers[other].stakeB]_vars

\* wager 1 has just been resolved and paid out while wager 2 is funded on both
\* sides, and the contract holds exactly the two stakes of wager 2
C30_Witness ==
    /\ last.op = "submitReceipt"
    /\ last.id = 1
    /\ EventsNamed("Payout") # {}
    /\ wagers[1].resolved
    /\ wagers[2].fundedA /\ wagers[2].fundedB /\ ~wagers[2].resolved
    /\ balanceOf[JUDGE] = wagers[2].stakeA + wagers[2].stakeB
    /\ balanceOf[JUDGE] = 2

-----------------------------------------------------------------------------

\* wager w is funded and unresolved, every listed identity has voted and
\* neither count has reached m
Stuck(w) ==
    /\ w.partyA # NULL
    /\ w.fundedA /\ w.fundedB
    /\ ~w.resolved
    /\ Listed(w) \subseteq w.arbitratorHasVoted
    /\ w.votesForA < w.profile.m
    /\ w.votesForB < w.profile.m

\* C31: a funded wager on which every listed identity has voted without a
\* count reaching m rejects every further fundEscrow and submitReceipt,
\* whoever calls and whoever signs; it stays in that condition for ever, with
\* its escrow balances unchanged and the tokens behind them in the contract.
C31_StuckEscrowStaysStuck ==
    /\ [](\A id \in Created :
            Stuck(wagers[id]) =>
                /\ \A sender \in Address, side \in Sides, tokenAccepts \in BOOLEAN :
                       fundEscrowError(wagers[id], sender, side, tokenAccepts) # ""
                /\ \A r \in Receipts, signer \in Address \cup {STRANGER},
                      tokenAccepts \in BOOLEAN :
                       r.wagerId = id =>
                           submitReceiptError(wagers[id], r, signer, tokenAccepts)
                               \in {"NotArbitrator", "DuplicateReceipt"}
                /\ wagers[id].stakeA + wagers[id].stakeB > 0
                /\ balanceOf[JUDGE] >= wagers[id].stakeA + wagers[id].stakeB)
    /\ [][\A id \in Created :
            Stuck(wagers[id]) =>
                /\ Stuck(wagers'[id])
                /\ wagers'[id].stakeA = wagers[id].stakeA
                /\ wagers'[id].stakeB = wagers[id].stakeB
                /\ ledger'[id] = ledger[id]]_vars

\* on a funded wager with m = 2 xavier and yara have voted for different
\* parties, a further receipt was just rejected, and the stakes of 1 and 2
\* are held by the contract
C31_Witness ==
    /\ last.op = "submitReceipt"
    /\ last.err = "DuplicateReceipt"
    /\ Stuck(wagers[last.id])
    /\ wagers[last.id].profile.m = 2
    /\ wagers[last.id].arbitratorHasVoted = {"xavier", "yara"}
    /\ wagers[last.id].votesForA = 1 /\ wagers[last.id].votesForB = 1
    /\ balanceOf[JUDGE] = 3

-----------------------------------------------------------------------------

\* C32: a wager that has a vote counted, a voter marked or is resolved has
\* both sides funded; a receipt is accepted only on a wager whose two sides
\* were funded before the call; and a funded flag, once true, stays true.
C32_FundedBeforeVotes ==
    /\ [](\A id \in DOMAIN wagers :
            LET w == wagers[id]
            IN (\/ w.votesForA + w.votesForB > 0
                \/ w.arbitratorHasVoted # {}
                \/ w.resolved) => (w.fundedA /\ w.fundedB))
    /\ [][\A id \in DOMAIN wagers :
            LET w == wagers[id]
                w2 == wagers'[id]
            IN /\ (w.fundedA => w2.fundedA)
               /\ (w.fundedB => w2.fundedB)
               /\ (w2.votesForA + w2.votesForB # w.votesForA + w.votesForB) =>
                      (w.fundedA /\ w.fundedB)]_vars

\* one vote is counted on a funded wager that needs two, and the wager is
\* unresolved
C32_Witness ==
    /\ last.op = "submitReceipt"
    /\ last.err = ""
    /\ wagers[last.id].votesForA + wagers[last.id].votesForB = 1
    /\ wagers[last.id].profile.m = 2
    /\ ~wagers[last.id].resolved
    /\ wagers[last.id].fundedA /\ wagers[last.id].fundedB

-----------------------------------------------------------------------------

\* the fields of a wager that createWager sets (lines 124-138)
Configuration(w) ==
    [partyA |-> w.partyA, partyB |-> w.partyB, token |-> w.token,
     stakeARequired |-> w.stakeARequired, stakeBRequired |-> w.stakeBRequired,
     claim |-> w.claim, sources |-> w.sources,
     confidenceThresholdBps |-> w.profile.confidenceThresholdBps,
     m |-> w.profile.m, n |-> w.profile.n,
     arbitrators |-> w.profile.arbitrators,
     isArbitrator |-> w.profile.isArbitrator]

\* C33: once a wager exists, no operation changes its parties, token,
\* required stakes, claim, sources, confidence threshold, m, n, arbitrator
\* list or arbitrator membership set.
C33_ConfigurationImmutable ==
    [][\A id \in DOMAIN wagers :
          wagers[id].partyA # NULL => Configuration(wagers'[id]) = Configuration(wagers[id])]_vars

\* a wager that was funded, given evidence, voted on and paid out still has
\* the configuration it was created with
C33_Witness ==
    /\ last.op = "submitReceipt"
    /\ last.err = ""
    /\ wagers[last.id].resolved
    /\ wagers[last.id].evidenceRoot # ZeroWager.evidenceRoot
    /\ wagers[last.id].stakeA = 0 /\ wagers[last.id].stakeB = 0
    /\ wagers[last.id].partyA = "alice" /\ wagers[last.id].partyB = "bob"
    /\ wagers[last.id].stakeARequired > 0 /\ wagers[last.id].stakeBRequired > 0
    /\ wagers[last.id].profile.isArbitrator # {}

-----------------------------------------------------------------------------

\* C34: a successful submitReceipt marks exactly the recovered signer as
\* voted and adds exactly 1 to the count of the side the receipt names
\* (votesForA when the winner is partyA, votesForB otherwise); the other
\* count, the other marks, the funding flags and the evidence fields are
\* unchanged, and a mark is never removed afterwards, whether or not the call
\* reached m.
C34_VoteEffect ==
    /\ [][(last'.op = "submitReceipt" /\ last'.err = "") =>
            LET w == wagers[last'.id]
                w2 == wagers'[last'.id]
                signer == last'.events[1][3]
                winner == last'.events[1][4]
            IN /\ last'.events[1][1] = "ReceiptAccepted"
               /\ signer \notin w.arbitratorHasVoted
               /\ w2.arbitratorHasVoted = w.arbitratorHasVoted \cup {signer}
               /\ IF winner = w.partyA
                  THEN w2.votesForA = w.votesForA + 1 /\ w2.votesForB = w.votesForB
                  ELSE w2.votesForB = w.votesForB + 1 /\ w2.votesForA = w.votesForA
               /\ w2.fundedA = w.fundedA /\ w2.fundedB = w.fundedB
               /\ w2.evidenceRoot = w.evidenceRoot /\ w2.evidenceURI = w.evidenceURI]_vars
    /\ [][\A id \in DOMAIN wagers :
            wagers[id].arbitratorHasVoted \subseteq wagers'[id].arbitratorHasVoted]_vars

\* a receipt for partyB was accepted on a wager that needs two votes: the
\* vote is counted, the signer is marked and nothing is resolved
C34_Witness ==
    /\ last.op = "submitReceipt"
    /\ last.err = ""
    /\ Len(last.events) = 1
    /\ last.events[1][4] = "bob"
    /\ wagers[last.id].profile.m = 2
    /\ wagers[last.id].votesForA = 0
    /\ wagers[last.id].votesForB = 1
    /\ wagers[last.id].arbitratorHasVoted = {last.events[1][3]}
    /\ ~wagers[last.id].resolved
    /\ wagers[last.id].evidenceRoot # ZeroWager.evidenceRoot

-----------------------------------------------------------------------------

\* the receipts that may name any wager of the store, and the signatures a
\* key holder made over a receipt that names a wager other than id
ReceiptsFor(id) ==
    {r \in [wagerId : DOMAIN wagers, winner : Parties, confidenceBps : ConfidenceValues] :
        r.wagerId = id}

SignedForAnother(r) ==
    {[by |-> s, over |-> [r EXCEPT !.wagerId = j]] : s \in Signers, j \in DOMAIN wagers \ {r.wagerId}}

\* C35: fundEscrow, attachEvidence and submitReceipt addressed to wager i
\* leave every field of every other wager unchanged, and a receipt signed for
\* one wager is never counted on another: submitted with a wagerId other than
\* the one it was signed over, it is rejected whatever the panel.
C35_WagersIsolated ==
    /\ [](\A id \in DOMAIN wagers : \A r \in ReceiptsFor(id) :
             \A signature \in SignedForAnother(r), tokenAccepts \in BOOLEAN :
                /\ recover(_hashReceiptTyped(r), signature) \notin wagers[id].profile.isArbitrator
                /\ submitReceiptError(wagers[id], r,
                                      recover(_hashReceiptTyped(r), signature), tokenAccepts) # "")
    /\ [][last'.op \in {"fundEscrow", "attachEvidence", "submitReceipt"} =>
            \A j \in DOMAIN wagers \ {last'.id} :
                wagers'[j] = wagers[j] /\ ledger'[j] = ledger[j]]_vars

\* wager 1 was resolved by its arbitrator's receipt; wager 2 has the same
\* panel, is funded and has just rejected a receipt, and stays without votes
C35_Witness ==
    /\ wagers[1].resolved
    /\ wagers[1].arbitratorHasVoted = {"xavier"}
    /\ wagers[2].profile.isArbitrator = {"xavier"}
    /\ wagers[2].fundedA /\ wagers[2].fundedB
    /\ last.op = "submitReceipt"
    /\ last.id = 2
    /\ last.err = "NotArbitrator"
    /\ wagers[2].arbitratorHasVoted = {}
    /\ wagers[2].votesForA + wagers[2].votesForB = 0
    /\ ~wagers[2].resolved

-----------------------------------------------------------------------------

\* the other side
Other(side) == IF side = "A" THEN "B" ELSE "A"

\* C36: the two sides fund independently and in either order: on an open
\* wager the party of an unfunded side who holds the stake funds it whether
\* or not the other side is funded; a funding leaves the other side's flag
\* and escrow alone; and the wager funded A then B is the wager funded B then
\* A, with the same flags, the same stakes and the same balances.
C36_FundingOrderIrrelevant ==
    /\ [](\A id \in DOMAIN wagers : \A side \in Sides :
            LET w == wagers[id]
                party == PartyOf(w, side)
            IN (w.partyA # NULL /\ ~w.resolved /\ ~IsFunded(w, side)
                    /\ balanceOf[party] >= RequiredOf(w, side)) =>
                   /\ fundEscrowError(w, party, side, TRUE) = ""
                   /\ ~IsFunded(w, Other(side)) =>
                          fundEscrowError(funded(w, Other(side)), party, side, TRUE) = "")
    /\ [](\A id \in DOMAIN wagers :
            LET w == wagers[id]
            IN (w.partyA # NULL /\ ~w.fundedA /\ ~w.fundedB) =>
                  /\ funded(funded(w, "A"), "B") = funded(funded(w, "B"), "A")
                  /\ moved(moved(balanceOf, w.partyA, JUDGE, w.stakeARequired),
                           w.partyB, JUDGE, w.stakeBRequired)
                       = moved(moved(balanceOf, w.partyB, JUDGE, w.stakeBRequired),
                               w.partyA, JUDGE, w.stakeARequired))
    /\ [][(last'.op = "fundEscrow" /\ last'.err = "") =>
            LET w == wagers[last'.id]
                w2 == wagers'[last'.id]
                amount == last'.events[1][4]
            IN /\ \E side \in Sides :
                     /\ ~IsFunded(w, side) /\ IsFunded(w2, side)
                     /\ amount = RequiredOf(w, side)
                     /\ EscrowOf(w2, side) = EscrowOf(w, side) + amount
                     /\ IsFunded(w2, Other(side)) = IsFunded(w, Other(side))
                     /\ EscrowOf(w2, Other(side)) = EscrowOf(w, Other(side))
               /\ balanceOf'[JUDGE] = balanceOf[JUDGE] + amount
               /\ (w2.fundedA /\ w2.fundedB) =>
                     /\ w2.stakeA = w2.stakeARequired
                     /\ w2.stakeB = w2.stakeBRequired
                     /\ ledger'[last'.id].deposited = w2.stakeARequired + w2.stakeBRequired]_vars

\* side B was funded first and side A has just been funded by alice: the
\* wager holds both stakes
C36_Witness ==
    /\ last.op = "fundEscrow"
    /\ last.err = ""
    /\ last.events[1][3] = "alice"
    /\ wagers[last.id].fundedA /\ wagers[last.id].fundedB
    /\ wagers[last.id].stakeA = wagers[last.id].stakeARequired
    /\ wagers[last.id].stakeB = wagers[last.id].stakeBRequired
    /\ wagers[last.id].stakeARequired # wagers[last.id].stakeBRequired
    /\ balanceOf[JUDGE] = wagers[last.id].stakeA + wagers[last.id].stakeB

-----------------------------------------------------------------------------

\* C37: the membership set submitReceipt consults is exactly the set of
\* identities on the list given at creation: on a funded, open wager a
\* recovered signer is turned away with NotArbitrator if and only if it is
\* not on that wager's list, every accepted receipt is signed by an identity
\* on the list of the wager it names, and being listed on one wager does not
\* admit an identity on another.
C37_MembershipIsTheList ==
    /\ [](\A id \in DOMAIN wagers :
            LET w == wagers[id]
            IN /\ w.profile.isArbitrator = Listed(w)
               /\ (w.partyA # NULL /\ w.fundedA /\ w.fundedB /\ ~w.resolved) =>
                     \A r \in ReceiptsFor(id), signer \in Address \cup {STRANGER},
                        tokenAccepts \in BOOLEAN :
                         (submitReceiptError(w, r, signer, tokenAccepts) = "NotArbitrator")
                             <=> (signer \notin Listed(w)))
    /\ [](\A i \in DOMAIN wagers, j \in DOMAIN wagers :
            LET w == wagers[j]
            IN (w.partyA # NULL /\ w.fundedA /\ w.fundedB /\ ~w.resolved) =>
                  \A signer \in Listed(wagers[i]) \ Listed(w), r \in ReceiptsFor(j) :
                      submitReceiptError(w, r, signer, TRUE) = "NotArbitrator")
    /\ [][(last'.op = "submitReceipt" /\ last'.err = "") =>
            last'.events[1][3] \in Listed(wagers[last'.id])]_vars

\* xavier, listed on wager 1 only, has voted there; wager 2 lists yara
\* only, is funded and open, and has just turned a receipt away
C37_Witness ==
    /\ Listed(wagers[1]) = {"xavier"}
    /\ wagers[1].arbitratorHasVoted = {"xavier"}
    /\ Listed(wagers[2]) = {"yara"}
    /\ wagers[2].fundedA /\ wagers[2].fundedB /\ ~wagers[2].resolved
    /\ last.op = "submitReceipt"
    /\ last.id = 2
    /\ last.err = "NotArbitrator"
    /\ wagers[2].arbitratorHasVoted = {}

-----------------------------------------------------------------------------

\* C38: the outcome of submitReceipt depends on the receipt, the signature
\* and the stored wager, never on the caller: whenever a step is the call
\* submitReceipt(r, signature) made by one account, the same step (the same
\* error, or the same storage, balances, payout and events) is that call made
\* by any other account.
C38_CallerIrrelevant ==
    [][last'.op = "submitReceipt" =>
          \A winner \in Parties, c1 \in Address :
              LET r == [wagerId |-> last'.id, winner |-> winner, confidenceBps |-> 8000]
              IN \A signature \in SignaturesFor(r),
                    tokenAccepts \in TokenResponses(last'.err = "TransferFailed") :
                    SubmitReceipt(c1, r, signature, tokenAccepts)
                        => \A c2 \in Address : SubmitReceipt(c2, r, signature, tokenAccepts)]_vars

\* the receipt xavier signed was handed in by another account, was accepted
\* and resolved the wager: the pot went to the winner it names
C38_Witness ==
    /\ last.op = "submitReceipt"
    /\ last.err = ""
    /\ last.events[1][3] = "xavier"
    /\ "xavier" \notin Relayers
    /\ wagers[last.id].resolved
    /\ wagers[last.id].winner = last.events[1][4]
    /\ ledger[last.id].paidTo = last.events[1][4]
    /\ ledger[last.id].paid = 2

====
